---- MODULE Spec2Model ----
(***************************************************************************)
(* Model of the content classification pipeline of the TechTorch document  *)
(* formatter (src/app/page.tsx): the signal analyzers, the segmentation    *)
(* scan of extractContent and postProcessContent.                          *)
(*                                                                         *)
(* Text is modelled by TLA+ strings; a character is a string of length 1.  *)
(* The alphabet is ASCII.  The five non-ASCII bullet glyphs the code       *)
(* mentions are written with ASCII characters that no pattern of the code  *)
(* mentions and that no modelled line uses otherwise:                      *)
(*     U+2022 "~"   U+2023 "%"   U+25E6 "^"   U+2043 "|"   U+2219 "#"      *)
(* Regular expressions are modelled by syntax trees and a matcher that     *)
(* computes, as the JavaScript engine's backtracking search does, whether  *)
(* some match exists.                                                      *)
(***************************************************************************)
EXTENDS Integers, Sequences, FiniteSets, TLC

\* ------------------------------------------------------------------------
\* Characters
\* ------------------------------------------------------------------------
U2022 == "~"
U2023 == "%"
U25E6 == "^"
U2043 == "|"
U2219 == "#"

UpperChars == "ABCDEFGHIJKLMNOPQRSTUVWXYZ"
LowerChars == "abcdefghijklmnopqrstuvwxyz"
DigitChars == "0123456789"

Ch(s, k) == SubSeq(s, k, k)
CharsOf(s) == {Ch(s, k) : k \in 1..Len(s)}

UpperC == CharsOf(UpperChars)
LowerC == CharsOf(LowerChars)
DigitC == CharsOf(DigitChars)
\* \w
WordC == UpperC \cup LowerC \cup DigitC \cup {"_"}
\* \s (the whitespace the modelled lines can hold)
SpaceC == {" ", "\t"}

IndexIn(c, s) == CHOOSE k \in 1..Len(s) : Ch(s, k) = c
LowerOfChar(c) == IF c \in UpperC THEN Ch(LowerChars, IndexIn(c, UpperChars)) ELSE c
DigitValue(c) == IndexIn(c, DigitChars) - 1

RECURSIVE toLowerCase(_)
toLowerCase(s) ==
    IF s = "" THEN ""
    ELSE IF Len(s) = 1 THEN LowerOfChar(s)
    ELSE LET h == Len(s) \div 2
         IN  toLowerCase(SubSeq(s, 1, h)) \o toLowerCase(SubSeq(s, h + 1, Len(s)))

\* s === s.toUpperCase(): no character of s has a different upper-case form
IsUpperCased(s) == \A k \in 1..Len(s) : Ch(s, k) \notin LowerC

startsWith(s, p) == Len(p) <= Len(s) /\ SubSeq(s, 1, Len(p)) = p
endsWith(s, p) == Len(p) <= Len(s) /\ SubSeq(s, Len(s) - Len(p) + 1, Len(s)) = p
includes(s, p) == \E k \in 0..(Len(s) - Len(p)) : SubSeq(s, k + 1, k + Len(p)) = p

\* String.prototype.trim
RECURSIVE trimStart(_)
trimStart(s) == IF s # "" /\ Ch(s, 1) \in SpaceC THEN trimStart(Tail(s)) ELSE s
RECURSIVE trimEnd(_)
trimEnd(s) ==
    IF s # "" /\ Ch(s, Len(s)) \in SpaceC THEN trimEnd(SubSeq(s, 1, Len(s) - 1)) ELSE s
trim(s) == trimEnd(trimStart(s))

\* parseInt of a string of decimal digits
RECURSIVE parseInt(_)
parseInt(s) ==
    IF s = "" THEN 0
    ELSE 10 * parseInt(SubSeq(s, 1, Len(s) - 1)) + DigitValue(Ch(s, Len(s)))

\* ------------------------------------------------------------------------
\* Regular expressions: syntax trees
\* ------------------------------------------------------------------------
In(S)   == [k |-> "in", s |-> S]              \* [...]
Lit(t)  == [k |-> "lit", t |-> t]             \* literal text
Dot     == [k |-> "dot"]                      \* .
Bol     == [k |-> "bol"]                      \* ^
Eol     == [k |-> "eol"]                      \* $
Wb      == [k |-> "wb"]                       \* \b
Cat(a)  == [k |-> "cat", a |-> a]             \* r1 r2 ...
Alt(a)  == [k |-> "alt", a |-> a]             \* r1 | r2 | ...
Opt(r)  == [k |-> "opt", r |-> r]             \* r?
Star(r) == [k |-> "star", r |-> r]            \* r*
Plus(r) == [k |-> "plus", r |-> r]            \* r+
Words(a) == Alt([n \in 1..Len(a) |-> Lit(a[n])])   \* (w1|w2|...)

S_ == In(SpaceC)
W_ == In(WordC)
D_ == In(DigitC)

IsWordAt(s, k) == k >= 1 /\ k <= Len(s) /\ Ch(s, k) \in WordC

\* a node that matches exactly one character, and whether it matches s[k]
IsCharNode(r) == r.k \in {"in", "dot"}
CharOk(r, s, k) == r.k = "dot" \/ Ch(s, k) \in r.s
\* the ends of the runs of characters of r that start after position p
CharRun(r, s, p) == {q \in p..Len(s) : \A k \in (p + 1)..q : CharOk(r, s, k)}

\* Ends(r, s, p): the positions q such that r matches s[p+1..q]
RECURSIVE Ends(_, _, _)
RECURSIVE CatEnds(_, _, _, _)
RECURSIVE Closure(_, _, _, _)
Ends(r, s, p) ==
    CASE r.k = "in"   -> IF p < Len(s) /\ Ch(s, p + 1) \in r.s THEN {p + 1} ELSE {}
      [] r.k = "lit"  -> IF startsWith(SubSeq(s, p + 1, Len(s)), r.t)
                         THEN {p + Len(r.t)} ELSE {}
      [] r.k = "dot"  -> IF p < Len(s) THEN {p + 1} ELSE {}
      [] r.k = "bol"  -> IF p = 0 THEN {p} ELSE {}
      [] r.k = "eol"  -> IF p = Len(s) THEN {p} ELSE {}
      [] r.k = "wb"   -> IF IsWordAt(s, p) # IsWordAt(s, p + 1) THEN {p} ELSE {}
      [] r.k = "cat"  -> CatEnds(r.a, 1, s, {p})
      [] r.k = "alt"  -> UNION {Ends(r.a[n], s, p) : n \in 1..Len(r.a)}
      [] r.k = "opt"  -> {p} \cup Ends(r.r, s, p)
      [] r.k = "star" -> IF IsCharNode(r.r) THEN CharRun(r.r, s, p)
                         ELSE Closure(r.r, s, {p}, {p})
      [] r.k = "plus" -> IF IsCharNode(r.r) THEN CharRun(r.r, s, p) \ {p}
                         ELSE Closure(r.r, s, Ends(r.r, s, p), Ends(r.r, s, p))
CatEnds(a, n, s, P) ==
    IF n > Len(a) \/ P = {} THEN P
    ELSE CatEnds(a, n + 1, s, UNION {Ends(a[n], s, p) : p \in P})
Closure(r, s, done, frontier) ==
    IF frontier = {} THEN done
    ELSE LET new == (UNION {Ends(r, s, p) : p \in frontier}) \ done
         IN  Closure(r, s, done \cup new, new)

\* RegExp.prototype.test: a match starts somewhere in s
Search(r, s) == \E p \in 0..Len(s) : Ends(r, s, p) # {}
\* a pattern is a syntax tree and its i flag; the tree of an i pattern is
\* written in lower case and matched against the lower-cased text
Re(r)  == [r |-> r, i |-> FALSE]
ReI(r) == [r |-> r, i |-> TRUE]
test(pat, s) == IF pat.i THEN Search(pat.r, toLowerCase(s)) ELSE Search(pat.r, s)
some(pats, s) == \E n \in 1..Len(pats) : test(pats[n], s)

\* ------------------------------------------------------------------------
\* Pattern tables
\* ------------------------------------------------------------------------
HEADER_KEYWORDS == <<
    "Introduction", "Conclusion", "Conclusions", "Summary", "Overview",
    "Background", "Methodology", "Results", "Discussion", "Recommendations",
    "Next Steps", "Appendix", "References", "Glossary", "Final Summary",
    "Development Tools", "Development tools", "Major Focus Areas",
    "Key Findings", "Executive Summary", "Scope", "Objectives", "Purpose",
    "Requirements", "Implementation", "Architecture", "Configuration",
    "Troubleshooting", "Best Practices", "Limitations", "Future Work",
    "Acknowledgments", "Prerequisites", "Dependencies", "Setup", "Installation",
    "Working Model", "Initial Project Phase", "Project Phase" >>

\* [:\s]
ColonOrSpace == In({":"} \cup SpaceC)
\* /<noun>s? (are|were|is|was|included)[:\s]/i
IntroNoun(w) ==
    ReI(Cat(<<Lit(w), Opt(Lit("s")), Lit(" "),
              Words(<<"are", "were", "is", "was", "included">>), ColonOrSpace>>))

LIST_INTRO_PATTERNS == <<
    ReI(Cat(<<Lit("the following"), ColonOrSpace>>)),
    ReI(Cat(<<Lit("as follows"), ColonOrSpace>>)),
    ReI(Cat(<<Lit("include"), Opt(In({"s", "d"})), ColonOrSpace>>)),
    ReI(Cat(<<Lit("such as"), ColonOrSpace>>)),
    ReI(Cat(<<Lit("for example"), ColonOrSpace>>)),
    ReI(Cat(<<Lit("listed below"), ColonOrSpace>>)),
    ReI(Cat(<<Lit("step"), Opt(Lit("s")), Lit(" "),
              Words(<<"are", "were", "is", "was">>), ColonOrSpace>>)),
    IntroNoun("challenge"),
    IntroNoun("characteristic"),
    IntroNoun("reason"),
    IntroNoun("benefit"),
    IntroNoun("feature"),
    IntroNoun("requirement"),
    IntroNoun("component"),
    Re(Cat(<<Lit(":"), Star(ColonOrSpace), Eol>>)) >>

CODE_PATTERNS == <<
    ReI(Cat(<<Bol, Words(<<"select", "from", "where", "insert", "update",
                           "delete", "create", "alter", "drop">>), S_>>)),
    Re(Cat(<<Wb, Words(<<"System.debug", "Console.log", "print(", "println(">>)>>)),
    Re(Cat(<<Wb, Alt(<<Cat(<<Lit("try"), Star(S_), Lit("{")>>),
                       Cat(<<Lit("catch"), Star(S_), Lit("(")>>),
                       Cat(<<Lit("finally"), Star(S_), Lit("{")>>),
                       Cat(<<Lit("if"), Star(S_), Lit("(")>>),
                       Cat(<<Lit("else"), Star(S_), Lit("{")>>),
                       Cat(<<Lit("for"), Star(S_), Lit("(")>>),
                       Cat(<<Lit("while"), Star(S_), Lit("(")>>)>>)>>)),
    Re(Cat(<<Wb, Alt(<<Cat(<<Lit("new"), Plus(S_), Plus(W_), Star(S_), Lit("(")>>),
                       Cat(<<Lit(".get"), Plus(W_), Star(S_), Lit("(")>>),
                       Cat(<<Lit(".set"), Plus(W_), Star(S_), Lit("(")>>)>>)>>)),
    Re(Cat(<<Bol, Star(S_),
             Words(<<"Id", "String", "Integer", "Boolean", "List<", "Map<",
                     "Set<", "var", "let", "const">>),
             Plus(S_), Plus(W_), Star(S_), Lit("=")>>)),
    Re(Cat(<<Words(<<"__c", "__r", "__mdt", "__e">>), Wb>>)),
    ReI(Cat(<<Wb, Words(<<"database.", "schema.", "apex", "soql", "sosl">>), Wb>>)),
    Re(Cat(<<Bol, Star(S_), Lit("}"), Star(S_),
             Opt(Words(<<"catch", "finally", "else">>)), Star(S_),
             Opt(In({"{"})), Star(S_), Eol>>)),
    Re(Cat(<<Bol, Star(S_), Lit("//"), Star(Dot), Eol>>)),
    Re(Cat(<<Bol, Star(S_), Lit("/*"), Star(Dot), Lit("*/"), Star(S_), Eol>>)),
    Re(Cat(<<Bol, Star(S_), Lit("*"), S_>>)),
    Re(Cat(<<Lit("=>"), Star(S_), Lit("{")>>)),
    Re(Cat(<<Wb, Lit("function"), Star(S_), Lit("(")>>)),
    Re(Cat(<<Wb, Lit("class"), Plus(S_), Plus(W_)>>)),
    Re(Cat(<<Wb, Lit("import"), Plus(S_)>>)),
    Re(Cat(<<Wb, Lit("export"), Plus(S_), Opt(Cat(<<Lit("default"), Plus(S_)>>))>>)),
    Re(Cat(<<Bol, Star(S_), Lit("@"), Plus(W_)>>)),
    ReI(Alt(<<Cat(<<Wb, Lit("savepoint"), Wb>>), Cat(<<Wb, Lit("rollback"), Wb>>)>>)),
    Re(Alt(<<Cat(<<Wb, Lit("DmlException"), Wb>>), Cat(<<Wb, Lit("Exception"), Wb>>)>>)) >>

BULLET_CONTENT_PATTERNS == <<
    Re(Cat(<<Bol, In(UpperC), Plus(In(LowerC)), Lit("ing"), S_>>)),
    Re(Cat(<<Bol, In(UpperC), Plus(In(LowerC)), Lit("ed"), S_>>)),
    ReI(Cat(<<Bol, Words(<<"how", "what", "when", "where", "why", "which">>), S_>>)),
    Re(Cat(<<Bol, Words(<<"The", "A", "An">>), Plus(S_), Plus(W_), Plus(S_),
             Words(<<"was", "were", "is", "are", "has", "have">>), S_>>)),
    ReI(Cat(<<Bol, Words(<<"no", "missing", "incorrect", "invalid", "duplicate">>), S_>>)),
    ReI(Cat(<<Bol, Words(<<"enable", "disable", "configure", "set", "get", "create",
                           "delete", "update", "review">>), S_>>)) >>

\* the numeric prefixes of section headings
Num1 == Cat(<<Bol, Plus(D_), Lit(".")>>)
Num2 == Cat(<<Num1, Plus(D_), Lit(".")>>)
\* /^\d+\.\d+\.\d+\s+[A-Z]/, /^\d+\.\d+\s+[A-Z]/, /^\d+\.\s+[A-Z]/
SectionH3 == Re(Cat(<<Num2, Plus(D_), Plus(S_), In(UpperC)>>))
SectionH2 == Re(Cat(<<Num1, Plus(D_), Plus(S_), In(UpperC)>>))
SectionH1 == Re(Cat(<<Num1, Plus(S_), In(UpperC)>>))
\* /^\d+\.\d+\.\d+\s/, /^\d+\.\d+\s/, /^\d+\.\s/
LevelH3 == Re(Cat(<<Num2, Plus(D_), S_>>))
LevelH2 == Re(Cat(<<Num1, Plus(D_), S_>>))
LevelH1 == Re(Cat(<<Num1, S_>>))
\* /^[a-z]\)\s/i, /^[ivxIVX]+\.\s/
LetterH3 == ReI(Cat(<<Bol, In(LowerC), Lit(")"), S_>>))
RomanH2  == Re(Cat(<<Bol, Plus(In({"i", "v", "x", "I", "V", "X"})), Lit("."), S_>>))

\* ------------------------------------------------------------------------
\* Input documents
\* ------------------------------------------------------------------------
\* the longest modelled document, in lines, apart from the named examples
MaxLines == 3

\* the lines the modelled conversion of a document can yield ("" is a blank
\* line, the last one is an indented line)
Pool == {
    "",
    "Summary",
    "Notes:",
    "Alpha",
    "Install the tool",
    "1) First step",
    "2) Second step",
    "- dash item",
    "^ sub item",
    "String s = obj.getName();",
    "System.debug(x);",
    "  }" }

Example1 == <<"1. Setup", "Install the tool", "2. Configure", "Edit the config file">>
Example2 == <<"The following issues were found:", "Missing field",
              "Invalid reference", "Duplicate record">>
Example3 == <<"SELECT Id FROM Account", "WHERE Name = 'Acme'", "AND Status__c = 'Active'">>
Example4 == <<"5.", "6.", "7.">>
Examples == {Example1, Example2, Example3, Example4}

\* documents for the cases that no short document of Pool lines shows: the
\* patterns of getHeadingLevel, a list introduction inside a code block, a
\* paragraph of 100 characters or more after a list introduction, and lines
\* up to 6 lines after a list introduction
LongLine ==
    "This paragraph is long enough that the corrective pass leaves it alone, although it follows a list introduction."
ProbeHeadings ==
    <<"1.2.3 Detail", "1.2 Scope", "1. setup", "a) first option", "iv. fourth part">>
ProbeIntroInCode == <<"System.debug(x);", "Notes:", "String s = obj.getName();", "Alpha">>
ProbeLongAfterIntro == <<"Notes:", LongLine>>
ProbeLongFirst == <<LongLine, "Alpha">>
ProbeSubTopics ==
    <<"Example: Output", "Example: Output", "Install the tool.", "Example: Output",
      "Example: Output Of The Second Run">>
ProbeAllKinds ==
    <<"1. Setup", "Summary", "1) First step", "- dash item", "^ sub item",
      "String s = obj.getName();", "System.debug(x);", "Notes:", "Install the tool",
      "Alpha", "2. Configure">>
ProbeWindow == <<"Notes:", "Install the tool", "Install the tool", "Install the tool",
                "Install the tool", "Install the tool", "Install the tool">>
Probes == {ProbeAllKinds, ProbeHeadings, ProbeIntroInCode, ProbeLongAfterIntro, ProbeLongFirst,
           ProbeSubTopics, ProbeWindow}

Range(f) == {f[k] : k \in DOMAIN f}
Documents ==
    UNION {[1..n -> Pool] : n \in 0..MaxLines} \cup Examples \cup Probes

\* The files: reading one gives its bytes or fails, and each of the two
\* conversions of the bytes gives lines or fails (None).
\* the longest document, apart from the named ones, that the HTML
\* conversion yields
MaxHtmlLines == 2
\* parseHtmlToLines returns trimmed lines, none of them empty
IsParsed(d) == \A k \in 1..Len(d) : d[k] # "" /\ Ch(d[k], 1) \notin {" ", "\t"}
                                     /\ Ch(d[k], Len(d[k])) \notin {" ", "\t"}
HtmlDocuments ==
    {d \in Documents : IsParsed(d) /\ (Len(d) <= MaxHtmlLines \/ d \in Examples \cup Probes)}
File(r, h, t) == [readable |-> r, html |-> h, raw |-> t]
Files ==
    {File(TRUE, <<d>>, <<d>>) : d \in HtmlDocuments}
    \cup {File(TRUE, <<d>>, <<>>) : d \in Examples}
    \cup {File(TRUE, <<>>, <<d>>) : d \in Documents}
    \cup {File(TRUE, <<>>, <<>>), File(FALSE, <<>>, <<>>)}
\* what a failing call throws: an Error with its message, or another value
Errors == {[isError |-> TRUE, message |-> "Can't find end of central directory"],
           [isError |-> FALSE, message |-> ""]}

\* ------------------------------------------------------------------------
\* Signal analyzers
\* ------------------------------------------------------------------------
\* a value that may be null: <<>> is null, <<v>> is the value v
None == <<>>
Some(v) == <<v>>
Min(a, b) == IF a < b THEN a ELSE b
Max(a, b) == IF a > b THEN a ELSE b
Count(S) == Cardinality(S)

\* trimmed.split(/\s+/): the positions where a word starts
WordStarts(t) ==
    {k \in 1..Len(t) : Ch(t, k) \notin SpaceC /\ (k = 1 \/ Ch(t, k - 1) \in SpaceC)}
\* /^[\w\s]+:\s*[\w\s]+$/
LabelValue ==
    Re(Cat(<<Bol, Plus(In(WordC \cup SpaceC)), Lit(":"), Star(S_),
             Plus(In(WordC \cup SpaceC)), Eol>>))

\* the loop over HEADER_KEYWORDS from keyword n on, with the score so far:
\* ret tells whether the loop returned from the function, v is the value
\* returned or the score after the loop
RECURSIVE KeywordLoop(_, _, _)
KeywordLoop(trimmed, n, score) ==
    IF n > Len(HEADER_KEYWORDS) THEN [ret |-> FALSE, v |-> score]
    ELSE LET keyword == HEADER_KEYWORDS[n] IN
         IF trimmed = keyword THEN [ret |-> TRUE, v |-> 90]
         ELSE IF startsWith(trimmed, keyword \o ":") THEN [ret |-> TRUE, v |-> 85]
         ELSE KeywordLoop(trimmed, n + 1,
                score
                + (IF startsWith(trimmed, keyword \o " ") THEN 20 ELSE 0)
                + (IF includes(toLowerCase(trimmed), toLowerCase(keyword))
                   THEN 10 ELSE 0))

\* /[{}\[\]();]/, /\b\w+\.\w+\(/, /=\s*['"]/, /=\s*\d+/, /blng__|SBQQ__|npsp__/,
\* /^[\w_]+[,;]?$/
CodeChars    == Re(In({"{", "}", "[", "]", "(", ")", ";"}))
MethodCall   == Re(Cat(<<Wb, Plus(W_), Lit("."), Plus(W_), Lit("(")>>))
StringAssign == Re(Cat(<<Lit("="), Star(S_), In({"'", "\""})>>))
NumberAssign == Re(Cat(<<Lit("="), Star(S_), Plus(D_)>>))
SalesforceNs == Re(Words(<<"blng__", "SBQQ__", "npsp__">>))
CodeFragment == Re(Cat(<<Bol, Plus(In(WordC \cup {"_"})), Opt(In({",", ";"})), Eol>>))

\* /^[\u2022\-\*\u2022\u2023\u25E6\u2043\u2219]\s/, /^(The|This|That|These|Those|It)\s/
BulletGlyph == Re(Cat(<<Bol, In({U2022, "-", "*", U2023, U25E6, U2043, U2219}), S_>>))
BodyOpener  == Re(Cat(<<Bol, Words(<<"The", "This", "That", "These", "Those", "It">>), S_>>))

\* the part of analyzeHeaderProbability that reads the text alone: the
\* value returned before the context is looked at (ret), or the score the
\* text collects
HeaderSignals(trimmed) ==
    LET len == Len(trimmed)
        s1 == (IF len < 80 THEN 15 ELSE 0) + (IF len < 50 THEN 10 ELSE 0)
              - (IF len > 150 THEN 30 ELSE 0)
        kw == KeywordLoop(trimmed, 1, s1)
        words == WordStarts(trimmed)
        capitalizedWords == {k \in words : Ch(trimmed, k) \in UpperC}
    IN  IF test(SectionH3, trimmed) THEN [ret |-> TRUE, v |-> 95]
        ELSE IF test(SectionH2, trimmed) THEN [ret |-> TRUE, v |-> 95]
        ELSE IF test(SectionH1, trimmed) THEN [ret |-> TRUE, v |-> 95]
        ELSE IF kw.ret THEN kw
        ELSE [ret |-> FALSE,
              v |-> kw.v
                 + (IF Count(words) >= 2
                       /\ 10 * Count(capitalizedWords) >= 7 * Count(words)
                    THEN 15 ELSE 0)
                 + (IF ~endsWith(trimmed, ".") /\ ~endsWith(trimmed, ",") THEN 10 ELSE 0)
                 - (IF endsWith(trimmed, ".") THEN 15 ELSE 0)
                 + (IF test(LabelValue, trimmed) /\ len < 60 THEN 20 ELSE 0)
                 + (IF IsUpperCased(trimmed) /\ len > 3 /\ len < 50 THEN 15 ELSE 0)]

\* the part of analyzeCodeProbability that reads the trimmed text alone
CodeSignals(trimmed) ==
    30 * Count({n \in 1..Len(CODE_PATTERNS) : test(CODE_PATTERNS[n], trimmed)})
    + (IF test(CodeChars, trimmed) THEN 15 ELSE 0)
    + (IF test(MethodCall, trimmed) THEN 15 ELSE 0)
    + (IF test(StringAssign, trimmed) THEN 10 ELSE 0)
    + (IF test(NumberAssign, trimmed) THEN 10 ELSE 0)
    + (IF test(SalesforceNs, trimmed) THEN 25 ELSE 0)
    + (IF Len(trimmed) < 30 /\ test(CodeFragment, trimmed) THEN 15 ELSE 0)

\* the part of analyzeBulletProbability that reads the trimmed text alone
BulletSignals(trimmed) ==
    LET len == Len(trimmed) IN
    [glyph |-> test(BulletGlyph, trimmed),
     v |-> (IF len < 100 /\ len > 10 THEN 10 ELSE 0)
           + 15 * Count({n \in 1..Len(BULLET_CONTENT_PATTERNS) :
                           test(BULLET_CONTENT_PATTERNS[n], trimmed)})
           - (IF test(BodyOpener, trimmed) /\ len > 80 THEN 20 ELSE 0)
           + (IF ~endsWith(trimmed, ".") /\ len > 20 THEN 5 ELSE 0)]

getHeadingLevelOf(trimmed) ==
    IF test(LevelH3, trimmed) THEN Some("heading3")
    ELSE IF test(LevelH2, trimmed) THEN Some("heading2")
    ELSE IF test(LevelH1, trimmed) THEN Some("heading1")
    ELSE IF test(LetterH3, trimmed) THEN Some("heading3")
    ELSE IF test(RomanH2, trimmed) THEN Some("heading2")
    ELSE None

\* text.match(/^(\d+)[.)]\s+(.+)/): None, or the two groups
NumberedRe == Re(Cat(<<Bol, Plus(D_), In({".", ")"}), Plus(S_), Plus(Dot)>>))
LeadingDigits(t) == CHOOSE q \in 0..Len(t) :
    /\ \A k \in 1..q : Ch(t, k) \in DigitC
    /\ (q = Len(t) \/ Ch(t, q + 1) \notin DigitC)
\* the text after the characters of S that follow position p
SkipRun(t, p, S) == CHOOSE q \in p..Len(t) :
    /\ \A k \in (p + 1)..q : Ch(t, k) \in S
    /\ (q = Len(t) \/ Ch(t, q + 1) \notin S)
numberedMatchOf(text) ==
    IF ~test(NumberedRe, text) THEN None
    ELSE LET d == LeadingDigits(text)
             \* \s+ is greedy, and gives back one character when nothing
             \* would be left for (.+)
             w == SkipRun(text, d + 1, SpaceC)
             from == IF w = Len(text) THEN w - 1 ELSE w
         IN  Some(<<SubSeq(text, 1, d), SubSeq(text, from + 1, Len(text))>>)

\* text.match(/^[\u2022\-\*\u2022]\s*(.+)/) and
\* text.match(/^[\u25E6\u2023\u2043\u2219\-]\s*(.+)/): None, or the group
MarkerGroup(text, glyphs) ==
    IF Len(text) < 2 \/ Ch(text, 1) \notin glyphs THEN None
    ELSE LET w == SkipRun(text, 1, SpaceC)
             from == IF w = Len(text) THEN w - 1 ELSE w
         IN  Some(SubSeq(text, from + 1, Len(text)))
bulletMatchOf(text) == MarkerGroup(text, {U2022, "-", "*"})
subBulletMatchOf(text) == MarkerGroup(text, {U25E6, U2023, U2043, U2219, "-"})

\* every test the code makes on one text
Signals(t) ==
    [header    |-> HeaderSignals(t),
     code      |-> CodeSignals(t),
     isCode    |-> some(CODE_PATTERNS, t),
     bullet    |-> BulletSignals(t),
     level     |-> getHeadingLevelOf(t),
     listIntro |-> some(LIST_INTRO_PATTERNS, t),
     numbered  |-> numberedMatchOf(t),
     bulletM   |-> bulletMatchOf(t),
     subBullet |-> subBulletMatchOf(t)]

\* The texts of the modelled documents and of the items made from them,
\* and their signals, computed once.
Strip(m) == IF m = None THEN {} ELSE {m[1]}
LineTexts == {trim(l) : l \in Pool \cup UNION {Range(d) : d \in Examples \cup Probes}}
Texts ==
    LineTexts
    \cup UNION {Strip(bulletMatchOf(t)) \cup Strip(subBulletMatchOf(t)) : t \in LineTexts}
    \cup UNION {IF numberedMatchOf(t) = None THEN {} ELSE {numberedMatchOf(t)[1][2]} :
                  t \in LineTexts}
SignalTable == [t \in Texts |-> Signals(t)]

\* The analyzers read the table through a variable that never changes.
VARIABLE signals
Sig(t) == signals[t]

analyzeHeaderProbability(text, prevText, nextText) ==
    LET trimmed == trim(text)
        h == Sig(trimmed).header
        score == h.v
                 + (IF prevText = None \/ trim(prevText[1]) = "" THEN 10 ELSE 0)
                 + (IF nextText # None /\ nextText[1] # ""
                       /\ Len(nextText[1]) > Len(trimmed) * 2
                    THEN 10 ELSE 0)
    IN  IF h.ret THEN h.v ELSE Min(score, 100)

analyzeCodeProbability(text, context) ==
    LET trimmed == trim(text)
        codeNeighbors == Count({k \in 1..Len(context) : Sig(context[k]).isCode})
        score == Sig(trimmed).code
                 + (IF startsWith(text, "    ") \/ startsWith(text, "\t") THEN 20 ELSE 0)
                 + (IF codeNeighbors >= 2 THEN 20 ELSE 0)
    IN  Min(score, 100)

analyzeBulletProbability(text, prevText, isAfterListIntro) ==
    LET trimmed == trim(text)
        b == Sig(trimmed).bullet
        score == b.v
                 + (IF isAfterListIntro THEN 40 ELSE 0)
                 + (IF prevText # None /\ prevText[1] # "" /\ Len(prevText[1]) < 100
                       /\ Len(trimmed) < 100
                    THEN 10 ELSE 0)
    IN  IF b.glyph THEN 95 ELSE Min(score, 100)

getHeadingLevel(text) == Sig(trim(text)).level

\* ------------------------------------------------------------------------
\* State
\* ------------------------------------------------------------------------
\* the classification runs made on one document
MaxRuns == 2

VARIABLES
    file,                  \* Home: the selected file
    status,                \* Home: 'idle', 'processing', 'success' or 'error'
    statusMessage,         \* Home: the message shown with the status
    downloadReady,         \* Home: the formatted document can be downloaded
    stats,                 \* Home: the counts shown, None before a run
    conversions,           \* the conversions extractContent has called
    thrown,                \* the call whose exception handleFormat caught
    docTitle,              \* Home: the title typed
    subtitle,              \* Home: the subtitle typed
    organization,          \* Home: the organization typed
    author,                \* Home: the author typed
    docBlob,               \* Home: the packed document, None before a success
    docSource,             \* the file given to the run that set docBlob
    input,                 \* the file handleFormat passed to extractContent
    parked,                \* a run awaiting a conversion, started before this one
    saved,                 \* what handleDownload handed to saveAs last
    lines,                 \* the lines the conversion of the document yields
    nonEmptyLines,         \* extractContent: the trimmed non-empty lines
    content,               \* extractContent: the items emitted so far
    i,                     \* extractContent: the cursor, from 0
    numberedListCounter,   \* extractContent: the numbered-run counter
    lastListIntroIndex,    \* extractContent: the last list introduction
    pc,                    \* where handleFormat and extractContent are
    result,                \* what extractContent returned
    run,                   \* the number of the classification run
    previous               \* what the run before returned

formVars == <<docTitle, subtitle, organization, author>>
uiVars == <<formVars, docBlob, docSource, input, parked, saved>>
homeVars == <<file, status, statusMessage, downloadReady, stats, conversions, thrown,
              uiVars>>
vars == <<lines, nonEmptyLines, content, i, numberedListCounter,
          lastListIntroIndex, pc, result, run, previous, signals, homeVars>>

\* lines.map(...).filter(l => l.text !== '')
RECURSIVE SelectNonEmpty(_, _)
SelectNonEmpty(ls, k) ==
    IF k > Len(ls) THEN <<>>
    ELSE LET l == [text |-> trim(ls[k]), originalIndex |-> k - 1,
                   wasEmpty |-> trim(ls[k]) = ""]
         IN  (IF l.text # "" THEN <<l>> ELSE <<>>) \o SelectNonEmpty(ls, k + 1)

\* ------------------------------------------------------------------------
\* The segmentation scan: what one iteration computes at cursor k
\* ------------------------------------------------------------------------
n == Len(nonEmptyLines)
textAt(k) == nonEmptyLines[k + 1].text
prevAt(k) == IF k > 0 THEN Some(textAt(k - 1)) ELSE None
nextAt(k) == IF k < n - 1 THEN Some(textAt(k + 1)) ELSE None
\* nonEmptyLines.slice(Math.max(0, k - 3), Math.min(length, k + 4))
contextAt(k) ==
    LET lo == Max(0, k - 3)
        hi == Min(n, k + 4)
    IN  [m \in 1..(hi - lo) |-> textAt(lo + m - 1)]
\* variant: no line introduces a list
isListIntroAt_never(k) == FALSE
isListIntroAt(k) == Sig(textAt(k)).listIntro
codeProbAt(k) == analyzeCodeProbability(textAt(k), contextAt(k))

\* the inner loop that collects consecutive code lines: the final j
RECURSIVE codeEnd(_, _)
codeEnd(k, j) ==
    IF j < n
       /\ \/ analyzeCodeProbability(textAt(j), contextAt(k)) >= 40
          \/ /\ Len(textAt(j)) < 30
             /\ j + 1 < n
             /\ analyzeCodeProbability(textAt(j + 1), contextAt(k)) >= 50
    THEN codeEnd(k, j + 1)
    ELSE j
\* variant: the block is not seeded with the line at the cursor
codeLinesAt_unseeded(k) == [m \in 1..(codeEnd(k, k + 1) - k - 1) |-> textAt(k + m)]
codeLinesAt(k) == [m \in 1..(codeEnd(k, k + 1) - k) |-> textAt(k + m - 1)]
\* variant: a block of one line needs no score of 80
commitsCodeAt_anyLength(k) == codeProbAt(k) >= 60
\* the code block rule pushes a block at cursor k
commitsCodeAt(k) ==
    codeProbAt(k) >= 60 /\ (Len(codeLinesAt(k)) >= 2 \/ codeProbAt(k) >= 80)

\* at the cursor
text == textAt(i)
prev == prevAt(i)
next == nextAt(i)
isListIntro == isListIntroAt(i)
\* lastListIntroIndex after "if (isListIntro) lastListIntroIndex = i"
listIntroIndex == IF isListIntro THEN i ELSE lastListIntroIndex
\* variant: a line is after a list introduction however far back that is
isAfterListIntro_anyDistance == i > listIntroIndex
isAfterListIntro == i - listIntroIndex <= 5 /\ i > listIntroIndex
codeProb == codeProbAt(i)
headerProb == analyzeHeaderProbability(text, prev, next)
headingLevel == getHeadingLevel(text)
numberedMatch == Sig(text).numbered
num == parseInt(numberedMatch[1][1])
bulletProb == analyzeBulletProbability(text, prev, isAfterListIntro)
bulletMatch == Sig(text).bulletM
subBulletMatch == Sig(text).subBullet

subTopicKeywords ==
    <<"Example", "Screen", "Step", "Phase", "Part", "Section", "Case", "Scenario">>
\* the level with the sub-topic nouns tested before the previous line
headerLevel_subTopicFirst ==
    IF \E k \in 1..Len(subTopicKeywords) : startsWith(text, subTopicKeywords[k])
    THEN "heading2"
    ELSE IF Len(text) < 30 /\ prev # None /\ prev[1] # ""
            /\ analyzeHeaderProbability(prev[1], None, Some(text)) >= 50
    THEN "heading3"
    ELSE "heading1"

\* the level of a heading found by its score
headerLevel ==
    IF Len(text) < 30 /\ prev # None /\ prev[1] # ""
       /\ analyzeHeaderProbability(prev[1], None, Some(text)) >= 50
    THEN "heading3"
    ELSE IF \E k \in 1..Len(subTopicKeywords) : startsWith(text, subTopicKeywords[k])
    THEN "heading2"
    ELSE "heading1"

\* the conditions under which the iteration gets to each rule and takes it
InLoop == pc = "scan" /\ i < n
TakesCode == commitsCodeAt(i)
TakesOverride == ~TakesCode /\ headingLevel # None
TakesHeader == ~TakesCode /\ headingLevel = None /\ headerProb >= 70
AtNumbered == ~TakesCode /\ headingLevel = None /\ headerProb < 70
\* variants: any number above the counter, or any number, continues the run
continuesNumbering_skips(m) == m = 1 \/ m >= numberedListCounter + 1
continuesNumbering_any(m) == m >= 1
continuesNumbering(m) == m = 1 \/ m = numberedListCounter + 1
TakesNumbered == AtNumbered /\ numberedMatch # None /\ continuesNumbering(num)
AtBullet == AtNumbered /\ ~(numberedMatch # None /\ continuesNumbering(num))
TakesBullet == AtBullet /\ bulletMatch # None
\* variant: any item before the line will do
followsBullet_anyItem == Len(content) > 0
followsBullet == Len(content) > 0 /\ content[Len(content)].type = "bullet"
TakesSubBullet ==
    AtBullet /\ bulletMatch = None /\ subBulletMatch # None /\ followsBullet
AtInferred ==
    AtBullet /\ bulletMatch = None /\ ~(subBulletMatch # None /\ followsBullet)
TakesInferred == AtInferred /\ bulletProb >= 60 /\ Len(text) < 120
TakesParagraph == AtInferred /\ ~(bulletProb >= 60 /\ Len(text) < 120)

\* content.push(item), the cursor moved to j and the counter set to c
Emit(item, j, c) ==
    /\ content' = Append(content, item)
    /\ i' = j
    /\ numberedListCounter' = c
    /\ lastListIntroIndex' = listIntroIndex
    /\ UNCHANGED <<lines, nonEmptyLines, pc, result, run, previous, signals, homeVars>>

\* ------------------------------------------------------------------------
\* postProcessContent
\* ------------------------------------------------------------------------
HasText(item) == "text" \in DOMAIN item /\ item.text # ""

\* the loop without rule (b): only the item after a list introduction changes
RECURSIVE postProcessLoop_onlyAfterIntro(_, _, _)
postProcessLoop_onlyAfterIntro(c, k, res) ==
    IF k > Len(c) THEN res
    ELSE IF /\ c[k].type = "paragraph" /\ HasText(c[k]) /\ Len(c[k].text) < 100
            /\ k > 1 /\ HasText(res[Len(res)]) /\ Sig(res[Len(res)].text).listIntro
         THEN postProcessLoop_onlyAfterIntro(c, k + 1,
                                             Append(res, [c[k] EXCEPT !.type = "bullet"]))
         ELSE postProcessLoop_onlyAfterIntro(c, k + 1, Append(res, c[k]))

\* the loop from item k on, with the result built so far
RECURSIVE postProcessLoop(_, _, _)
postProcessLoop(c, k, res) ==
    IF k > Len(c) THEN res
    ELSE LET item == c[k]
             prv == IF k > 1 THEN Some(res[Len(res)]) ELSE None
             nxt == IF k < Len(c) THEN Some(c[k + 1]) ELSE None
             afterIntro == prv # None /\ HasText(prv[1]) /\ Sig(prv[1].text).listIntro
             betweenBullets == /\ prv # None /\ prv[1].type = "bullet"
                               /\ nxt # None /\ nxt[1].type = "bullet"
         IN  IF item.type = "paragraph" /\ HasText(item) /\ Len(item.text) < 100
                /\ (afterIntro \/ betweenBullets)
             THEN postProcessLoop(c, k + 1, Append(res, [item EXCEPT !.type = "bullet"]))
             ELSE postProcessLoop(c, k + 1, Append(res, item))

\* the pass that drops the item it reclassifies instead of replacing it
postProcessContent_dropsReclassified(c) ==
    SelectSeq(postProcessLoop(c, 1, <<>>), LAMBDA item : item \in {c[k] : k \in 1..Len(c)})

postProcessContent(c) == postProcessLoop(c, 1, <<>>)

\* ------------------------------------------------------------------------
\* Document creation
\* ------------------------------------------------------------------------
\* `${n}`
RECURSIVE Decimal(_)
Decimal(m) ==
    IF m < 10 THEN Ch(DigitChars, m + 1)
    ELSE Decimal(m \div 10) \o Ch(DigitChars, (m % 10) + 1)

\* new Paragraph({ children: [] })
Blank == [el |-> "blank"]
\* new Paragraph({ children: [new PageBreak()] })
PageBreak == [el |-> "pageBreak"]
\* a paragraph of text runs, with the formatting named by style
TextParagraph(style, runs) == [el |-> "paragraph", style |-> style, runs |-> runs]

\* variant: every row is closed by a bottom border
createCodeBlockTable_closedRows(ls) ==
    [el |-> "table",
     rows |-> [index \in 1..Len(ls) |->
                 [text   |-> ls[index],
                  top    |-> IF index = 1 THEN "single" ELSE "nil",
                  bottom |-> "single"]]]
\* one row per line; index here is the index of the code plus one
createCodeBlockTable(ls) ==
    [el |-> "table",
     rows |-> [index \in 1..Len(ls) |->
                 [text   |-> ls[index],
                  top    |-> IF index = 1 THEN "single" ELSE "nil",
                  bottom |-> IF index = Len(ls) THEN "single" ELSE "nil"]]]

\* the title page and the table of contents
titlePage(t, s, o, a, currentDate) ==
    <<Blank, Blank, Blank, Blank, Blank, Blank, TextParagraph("title", <<t>>)>>
    \o (IF s # "" THEN <<TextParagraph("subtitle", <<s>>)>> ELSE <<>>)
    \o <<TextParagraph("organization", <<o>>),
         TextParagraph("date", <<"As of " \o currentDate>>),
         TextParagraph("version",
                       <<IF a # "" THEN "Version 1.0 (" \o a \o ")" ELSE "Version 1.0">>),
         PageBreak>>
tableOfContents ==
    <<TextParagraph("tocTitle", <<"Table of Contents">>), [el |-> "toc"], PageBreak>>
endOfDocument == TextParagraph("end", <<"End of Document">>)

\* the children pushed by one turn of the loop over the content
childrenOf(item, lastType) ==
    IF item.type = "heading1"
    THEN (IF lastType # None /\ lastType[1] # "heading1" THEN <<Blank>> ELSE <<>>)
         \o <<TextParagraph("heading1", <<item.text>>)>>
    ELSE IF item.type = "numbered"
    THEN <<TextParagraph("numbered", <<Decimal(item.number) \o ". ", item.text>>)>>
    ELSE IF item.type = "code_block"
    THEN (IF Len(item.lines) > 0
          THEN <<Blank, createCodeBlockTable(item.lines), Blank>>
          ELSE <<>>)
    ELSE <<TextParagraph(item.type, <<item.text>>)>>

\* the loop over the content from item k on
RECURSIVE mainContent(_, _, _)
mainContent(c, k, lastType) ==
    IF k > Len(c) THEN <<>>
    ELSE childrenOf(c[k], lastType) \o mainContent(c, k + 1, Some(c[k].type))

\* the children of the document, in order
createFormattedDocument(c, t, s, o, a, currentDate) ==
    titlePage(t, s, o, a, currentDate) \o tableOfContents
    \o mainContent(c, 1, None) \o <<endOfDocument>>

\* await Packer.toBlob(doc): the packed children
Blob(children) == [type |-> "docx", document |-> children]
\* the months a run can fall in
Dates == {"November 2026", "December 2026"}
\* the title page entries typed before the run
Form(t, s, o, a) == [docTitle |-> t, subtitle |-> s, organization |-> o, author |-> a]
FullForm == Form("CPQ & Billing  Guide", "Operational Handoff", "Calabrio Inc.", "Kornel")
Forms == {FullForm, Form("Guide", "", "", ""), Form("", "Operational Handoff", "", "")}

\* ------------------------------------------------------------------------
\* Actions
\* ------------------------------------------------------------------------
Init ==
    /\ file \in Files
    /\ status = "idle"
    /\ statusMessage = ""
    /\ downloadReady = FALSE
    /\ stats = None
    /\ conversions = <<>>
    /\ thrown = ""
    /\ docTitle = FullForm.docTitle
    /\ subtitle = FullForm.subtitle
    /\ organization = FullForm.organization
    /\ author = FullForm.author
    /\ docBlob = None
    /\ docSource = None
    /\ input = None
    /\ parked = None
    /\ saved = None
    /\ lines = <<>>
    /\ nonEmptyLines = <<>>
    /\ content = <<>>
    /\ i = 0
    /\ numberedListCounter = 0
    /\ lastListIntroIndex = -10
    /\ pc = "idle"
    /\ result = <<>>
    /\ run = 1
    /\ previous = <<>>
    /\ signals = SignalTable

extractVars == <<lines, nonEmptyLines, content, i, numberedListCounter,
                 lastListIntroIndex, result, run, previous, signals>>

\* the catch of handleFormat, for the value err thrown by the call named by
\* from
Catch(err, from) ==
    /\ status' = "error"
    /\ statusMessage' = "Error: " \o (IF err.isError THEN err.message ELSE "Unknown error")
    /\ thrown' = from
    /\ pc' = "end"

\* handleFormat, up to the call of extractContent
Format ==
    /\ pc = "idle" /\ docTitle # ""
    /\ status' = "processing"
    /\ statusMessage' = "Analyzing document structure..."
    /\ input' = Some(file)
    /\ pc' = "read"
    /\ UNCHANGED <<file, downloadReady, stats, conversions, thrown, extractVars,
                   formVars, docBlob, docSource, parked, saved>>

\* extractContent: await file.arrayBuffer()
ReadFile ==
    /\ pc = "read"
    /\ IF input[1].readable
       THEN pc' = "html" /\ UNCHANGED <<status, statusMessage, thrown>>
       ELSE \E err \in Errors : Catch(err, "arrayBuffer")
    /\ UNCHANGED <<file, downloadReady, stats, conversions, extractVars, uiVars>>

\* extractContent: the try block, mammoth.convertToHtml and parseHtmlToLines
ConvertHtml ==
    /\ pc = "html"
    /\ conversions' = Append(conversions, "convertToHtml")
    /\ IF input[1].html # None
       THEN lines' = input[1].html[1] /\ pc' = "start"
       ELSE lines' = lines /\ pc' = "raw"
    /\ UNCHANGED <<file, status, statusMessage, downloadReady, stats, thrown, uiVars,
                   nonEmptyLines, content, i, numberedListCounter,
                   lastListIntroIndex, result, run, previous, signals>>

\* variant: the raw text is used although it could not be extracted
ConvertRaw_swallows ==
    /\ pc = "raw"
    /\ conversions' = Append(conversions, "extractRawText")
    /\ lines' = IF input[1].raw # None THEN input[1].raw[1] ELSE <<>>
    /\ pc' = "start"
    /\ UNCHANGED <<file, status, statusMessage, downloadReady, stats, thrown, uiVars,
                   nonEmptyLines, content, i, numberedListCounter,
                   lastListIntroIndex, result, run, previous, signals>>

\* extractContent: the catch block, mammoth.extractRawText and split
ConvertRaw ==
    /\ pc = "raw"
    /\ conversions' = Append(conversions, "extractRawText")
    /\ IF input[1].raw # None
       THEN /\ lines' = input[1].raw[1] /\ pc' = "start"
            /\ UNCHANGED <<status, statusMessage, thrown>>
       ELSE /\ lines' = lines
            /\ \E err \in Errors : Catch(err, "extractRawText")
    /\ UNCHANGED <<file, downloadReady, stats, uiVars,
                   nonEmptyLines, content, i, numberedListCounter,
                   lastListIntroIndex, result, run, previous, signals>>

\* variant: the counter is kept from one call to the next
Normalize_keepsCounter ==
    /\ pc = "start"
    /\ nonEmptyLines' = SelectNonEmpty(lines, 1)
    /\ content' = <<>>
    /\ i' = 0
    /\ lastListIntroIndex' = -10
    /\ pc' = "scan"
    /\ UNCHANGED <<lines, result, run, previous, numberedListCounter, signals, homeVars>>

\* extractContent, from the filter of the empty lines to the loop
Normalize ==
    /\ pc = "start"
    /\ nonEmptyLines' = SelectNonEmpty(lines, 1)
    /\ content' = <<>>
    /\ i' = 0
    /\ numberedListCounter' = 0
    /\ lastListIntroIndex' = -10
    /\ pc' = "scan"
    /\ UNCHANGED <<lines, result, run, previous, signals, homeVars>>

\* variant: the cursor moves by one line past a block
CodeBlock_advancesOne ==
    /\ InLoop /\ TakesCode
    /\ Emit([type |-> "code_block", lines |-> codeLinesAt(i), confidence |-> codeProb],
            i + 1, 0)

\* variant: a block leaves the numbered-run counter as it is
CodeBlock_keepsCounter ==
    /\ InLoop /\ TakesCode
    /\ Emit([type |-> "code_block", lines |-> codeLinesAt(i), confidence |-> codeProb],
            codeEnd(i, i + 1), numberedListCounter)

CodeBlock ==
    /\ InLoop /\ TakesCode
    /\ Emit([type |-> "code_block", lines |-> codeLinesAt(i), confidence |-> codeProb],
            codeEnd(i, i + 1), 0)

\* variant: the heading loses its number
HeadingOverride_stripsNumber ==
    /\ InLoop /\ TakesOverride
    /\ Emit([type |-> headingLevel[1],
             text |-> SubSeq(text, SkipRun(text, SkipRun(text, 0, DigitC \cup {"."}), SpaceC) + 1,
                             Len(text)),
             confidence |-> 95], i + 1, 0)

HeadingOverride ==
    /\ InLoop /\ TakesOverride
    /\ Emit([type |-> headingLevel[1], text |-> text, confidence |-> 95], i + 1, 0)

HeaderHeading ==
    /\ InLoop /\ TakesHeader
    /\ Emit([type |-> headerLevel, text |-> text, confidence |-> headerProb], i + 1, 0)

NumberedItem ==
    /\ InLoop /\ TakesNumbered
    /\ Emit([type |-> "numbered", text |-> numberedMatch[1][2], number |-> num],
            i + 1, num)

ExplicitBullet ==
    /\ InLoop /\ TakesBullet
    /\ Emit([type |-> "bullet", text |-> bulletMatch[1], confidence |-> 95],
            i + 1, numberedListCounter)

SubBullet ==
    /\ InLoop /\ TakesSubBullet
    /\ Emit([type |-> "sub_bullet", text |-> subBulletMatch[1], confidence |-> 90],
            i + 1, numberedListCounter)

InferredBullet ==
    /\ InLoop /\ TakesInferred
    /\ Emit([type |-> "bullet", text |-> text, confidence |-> bulletProb],
            i + 1, numberedListCounter)

\* variants: the paragraph rule keeps the counter, or keeps the cursor
DefaultParagraph_keepsCounter ==
    /\ InLoop /\ TakesParagraph
    /\ Emit([type |-> "paragraph", text |-> text,
             confidence |-> 100 - headerProb - bulletProb], i + 1, numberedListCounter)
DefaultParagraph_staysPut ==
    /\ InLoop /\ TakesParagraph
    /\ Emit([type |-> "paragraph", text |-> text,
             confidence |-> 100 - headerProb - bulletProb], i, 0)

DefaultParagraph ==
    /\ InLoop /\ TakesParagraph
    /\ Emit([type |-> "paragraph", text |-> text,
             confidence |-> 100 - headerProb - bulletProb], i + 1, 0)

\* the loop ends: return postProcessContent(content)
Return ==
    /\ pc = "scan" /\ ~(i < n)
    /\ result' = postProcessContent(content)
    /\ pc' = "done"
    /\ UNCHANGED <<lines, nonEmptyLines, content, i, numberedListCounter,
                   lastListIntroIndex, run, previous, signals, homeVars>>

\* the type is one of the types of T
CountOf(c, T) == Cardinality({k \in 1..Len(c) : c[k].type \in T})
\* handleFormat: newStats
\* variant: the sub-bullets are left out of the bullets
StatsOf_noSubBullets(c) ==
    [headings   |-> Cardinality({k \in 1..Len(c) : startsWith(c[k].type, "heading")}),
     bullets    |-> CountOf(c, {"bullet"}),
     numbered   |-> CountOf(c, {"numbered"}),
     codeBlocks |-> CountOf(c, {"code_block"}),
     paragraphs |-> CountOf(c, {"paragraph"})]
StatsOf(c) ==
    [headings   |-> Cardinality({k \in 1..Len(c) : startsWith(c[k].type, "heading")}),
     bullets    |-> CountOf(c, {"bullet", "sub_bullet"}),
     numbered   |-> CountOf(c, {"numbered"}),
     codeBlocks |-> CountOf(c, {"code_block"}),
     paragraphs |-> CountOf(c, {"paragraph"})]

\* variant: a failure of the packing is not reported
BuildDocument_hidesFailure ==
    /\ pc = "done"
    /\ stats' = Some(StatsOf(result))
    /\ \E outcome \in {"ok", "createFormattedDocument", "Packer.toBlob"},
          currentDate \in Dates :
          /\ docBlob' = Some(Blob(createFormattedDocument(
                                     result, docTitle, subtitle,
                                     IF organization # "" THEN organization
                                     ELSE "TechTorch Inc.",
                                     author, currentDate)))
          /\ docSource' = input
          /\ downloadReady' = TRUE
          /\ status' = "success"
          /\ statusMessage' = "Document formatted successfully!"
          /\ thrown' = IF outcome = "ok" THEN thrown ELSE outcome
          /\ pc' = "end"
    /\ UNCHANGED <<file, conversions, extractVars, formVars, input, parked, saved>>

\* handleFormat, from the return of extractContent on: the statistics, then
\* createFormattedDocument and Packer.toBlob, each of which may throw
BuildDocument ==
    /\ pc = "done"
    /\ stats' = Some(StatsOf(result))
    /\ \E outcome \in {"ok", "createFormattedDocument", "Packer.toBlob"} :
          IF outcome = "ok"
          THEN /\ \E currentDate \in Dates :
                     docBlob' = Some(Blob(createFormattedDocument(
                                            result, docTitle, subtitle,
                                            IF organization # "" THEN organization
                                            ELSE "TechTorch Inc.",
                                            author, currentDate)))
               /\ docSource' = input
               /\ downloadReady' = TRUE
               /\ status' = "success"
               /\ statusMessage' = "Document formatted successfully!"
               /\ thrown' = thrown
               /\ pc' = "end"
          ELSE /\ UNCHANGED <<downloadReady, docBlob, docSource>>
               /\ \E err \in Errors : Catch(err, outcome)
    /\ UNCHANGED <<file, conversions, extractVars, formVars, input, parked, saved>>

\* the same document is classified once more
Reclassify ==
    /\ pc = "done" /\ run < MaxRuns
    /\ previous' = result
    /\ run' = run + 1
    /\ pc' = "start"
    /\ UNCHANGED <<lines, nonEmptyLines, content, i, numberedListCounter,
                   lastListIntroIndex, result, signals, homeVars>>

Step ==
    \/ CodeBlock
    \/ HeadingOverride
    \/ HeaderHeading
    \/ NumberedItem
    \/ ExplicitBullet
    \/ SubBullet
    \/ InferredBullet
    \/ DefaultParagraph

Next ==
    \/ Format
    \/ ReadFile
    \/ ConvertHtml
    \/ ConvertRaw
    \/ Normalize
    \/ Step
    \/ Return
    \/ BuildDocument
    \/ Reclassify

Spec == Init /\ [][Next]_vars

\* the longest document, apart from the named examples, for which the end
\* of the scan is checked
MaxScanLines == 2
IsShort(d) == d = None \/ Len(d[1]) <= MaxScanLines \/ d[1] \in Examples
InitShort == Init /\ IsShort(file.html) /\ IsShort(file.raw)
\* the loop and the calls run to their end
FairSpec == InitShort /\ [][Next]_vars /\ WF_vars(Next)

\* ------------------------------------------------------------------------
\* Home: the handlers of the page, and runs of handleFormat that overlap
\* ------------------------------------------------------------------------
\* docTitle.replace(/[^\w\s-]/g, '')
RECURSIVE removeOthers(_)
removeOthers(s) ==
    IF s = "" THEN ""
    ELSE (IF Ch(s, 1) \in WordC \cup SpaceC \cup {"-"} THEN Ch(s, 1) ELSE "")
         \o removeOthers(Tail(s))
\* .replace(/\s+/g, '_')
RECURSIVE underscored(_)
underscored(s) ==
    IF s = "" THEN ""
    ELSE IF Ch(s, 1) \in SpaceC THEN "_" \o underscored(trimStart(s))
    ELSE Ch(s, 1) \o underscored(Tail(s))
cleanTitle(t) == underscored(removeOthers(t))

\* the files selected or dropped on the page
HomeFiles ==
    {File(TRUE, <<ProbeAllKinds>>, <<ProbeAllKinds>>),
     File(TRUE, <<>>, << <<"Summary", "Alpha">> >>),
     File(TRUE, <<>>, <<>>),
     File(FALSE, <<>>, <<>>)}
\* the names of the files dropped
DroppedNames == {"report.docx", "notes.txt"}

HomeInit ==
    /\ file \in HomeFiles
    /\ \E form \in Forms :
          /\ docTitle = form.docTitle
          /\ subtitle = form.subtitle
          /\ organization = form.organization
          /\ author = form.author
    /\ status = "idle"
    /\ statusMessage = ""
    /\ downloadReady = FALSE
    /\ stats = None
    /\ conversions = <<>>
    /\ thrown = ""
    /\ docBlob = None
    /\ docSource = None
    /\ input = None
    /\ parked = None
    /\ saved = None
    /\ lines = <<>>
    /\ nonEmptyLines = <<>>
    /\ content = <<>>
    /\ i = 0
    /\ numberedListCounter = 0
    /\ lastListIntroIndex = -10
    /\ pc = "idle"
    /\ result = <<>>
    /\ run = 1
    /\ previous = <<>>
    /\ signals = SignalTable

\* the run of handleFormat is awaiting a conversion of extractContent
Awaiting == pc \in {"read", "html", "raw"}
\* no synchronous code is running: an event or a continuation can be taken
AtRest == pc \in {"idle", "end"} \/ Awaiting
\* what is kept of a run that is awaiting a conversion
AwaitingRun == [input |-> input[1], pc |-> pc, conversions |-> conversions]
\* the variables of a call of extractContent before its first statement
FreshLocals ==
    /\ lines' = <<>>
    /\ nonEmptyLines' = <<>>
    /\ content' = <<>>
    /\ i' = 0
    /\ numberedListCounter' = 0
    /\ lastListIntroIndex' = -10
    /\ result' = <<>>
    /\ run' = 1
    /\ previous' = <<>>
    /\ signals' = signals

\* setFile, setStatus('idle'), setDownloadReady(false), setStats(null)
SelectFile(f) ==
    /\ file' = f
    /\ status' = "idle"
    /\ downloadReady' = FALSE
    /\ stats' = None
    /\ UNCHANGED <<statusMessage, conversions, thrown, uiVars, extractVars, pc>>

\* the change of the file input; nothing is selected when the dialog is
\* cancelled
handleFileSelect ==
    /\ AtRest
    /\ \E selectedFile \in {None} \cup {Some(f) : f \in HomeFiles} :
          IF selectedFile # None THEN SelectFile(selectedFile[1]) ELSE UNCHANGED vars

\* the drop of a file on the upload area
handleDrop ==
    /\ AtRest
    /\ \E droppedFile \in HomeFiles, name \in DroppedNames :
          IF endsWith(name, ".docx") THEN SelectFile(droppedFile) ELSE UNCHANGED vars

\* the click on the Format button, which is enabled unless the status is
\* 'processing'; a run that is awaiting a conversion stays in flight beside
\* the new one (two runs at most are followed)
handleFormat ==
    /\ AtRest /\ docTitle # "" /\ status # "processing"
    /\ Awaiting => parked = None
    /\ parked' = IF Awaiting THEN Some(AwaitingRun) ELSE parked
    /\ status' = "processing"
    /\ statusMessage' = "Analyzing document structure..."
    /\ input' = Some(file)
    /\ conversions' = <<>>
    /\ thrown' = ""
    /\ pc' = "read"
    /\ FreshLocals
    /\ UNCHANGED <<file, downloadReady, stats, formVars, docBlob, docSource, saved>>

\* the conversion awaited by the other run in flight settles first: that
\* run is the one followed from here on
Resume ==
    /\ parked # None /\ AtRest
    /\ parked' = IF Awaiting THEN Some(AwaitingRun) ELSE None
    /\ input' = Some(parked[1].input)
    /\ pc' = parked[1].pc
    /\ conversions' = parked[1].conversions
    /\ thrown' = ""
    /\ FreshLocals
    /\ UNCHANGED <<file, status, statusMessage, downloadReady, stats, formVars,
                   docBlob, docSource, saved>>

\* the click on the download button, shown while downloadReady
handleDownload ==
    /\ AtRest /\ downloadReady
    /\ saved' = IF docBlob # None
                THEN Some([blob |-> docBlob[1],
                           name |-> cleanTitle(docTitle) \o "_Formatted.docx"])
                ELSE saved
    /\ UNCHANGED <<file, status, statusMessage, downloadReady, stats, conversions,
                   thrown, formVars, docBlob, docSource, input, parked, pc, extractVars>>

HomeNext ==
    \/ handleFileSelect
    \/ handleDrop
    \/ handleFormat
    \/ handleDownload
    \/ Resume
    \/ ReadFile
    \/ ConvertHtml
    \/ ConvertRaw
    \/ Normalize
    \/ Step
    \/ Return
    \/ BuildDocument

HomeSpec == HomeInit /\ [][HomeNext]_vars

\* ------------------------------------------------------------------------
\* The earlier formatter (part_000): createFormattedDocument
\* ------------------------------------------------------------------------
\* the first loop over the content, from item k on: the subtitle and
\* whether the first heading1 is to be skipped
RECURSIVE subtitleSearch(_, _, _)
subtitleSearch(c, k, t) ==
    IF k > Len(c) THEN [subtitleText |-> None, skipFirstHeading |-> FALSE]
    ELSE IF c[k].type = "heading1" /\ HasText(c[k]) /\ c[k].text # t
    THEN [subtitleText |-> Some(c[k].text), skipFirstHeading |-> TRUE]
    ELSE IF c[k].type = "paragraph" /\ HasText(c[k]) /\ includes(c[k].text, " - ")
    THEN [subtitleText |-> Some(c[k].text), skipFirstHeading |-> FALSE]
    ELSE subtitleSearch(c, k + 1, t)

\* the second loop over the content, from item k on
RECURSIVE earlierContent(_, _, _, _)
earlierContent(c, k, found, isFirstHeading) ==
    IF k > Len(c) THEN <<>>
    ELSE IF c[k].type = "heading1"
    THEN (IF found.skipFirstHeading /\ isFirstHeading
          THEN <<>>
          ELSE <<TextParagraph("heading1", <<c[k].text>>)>>)
         \o earlierContent(c, k + 1, found, FALSE)
    ELSE IF c[k].type = "paragraph"
    THEN (IF found.subtitleText # None /\ c[k].text = found.subtitleText[1]
          THEN <<>>
          ELSE <<TextParagraph("paragraph", <<c[k].text>>)>>)
         \o earlierContent(c, k + 1, found, isFirstHeading)
    ELSE IF c[k].type = "code_block"
    THEN (IF Len(c[k].lines) > 0
          THEN <<Blank, createCodeBlockTable(c[k].lines), Blank>>
          ELSE <<>>)
         \o earlierContent(c, k + 1, found, isFirstHeading)
    ELSE <<TextParagraph(c[k].type, <<c[k].text>>)>>
         \o earlierContent(c, k + 1, found, isFirstHeading)

\* the children of the document of the earlier formatter, in order
earlierFormattedDocument(c, t, o, currentDate) ==
    <<Blank, Blank, Blank, Blank, TextParagraph("title", <<t>>)>>
    \o (IF subtitleSearch(c, 1, t).subtitleText # None
        THEN <<TextParagraph("subtitle", <<subtitleSearch(c, 1, t).subtitleText[1]>>)>>
        ELSE <<>>)
    \o <<TextParagraph("organization", <<o>>),
         TextParagraph("date", <<"As of " \o currentDate>>),
         TextParagraph("version", <<"Version 1.0">>),
         PageBreak>>
    \o earlierContent(c, 1, subtitleSearch(c, 1, t), TRUE)
    \o <<endOfDocument>>

\* items its extractContent makes of lines: of a keyword line, of numbered
\* section lines, of plain lines, of a marked line and of two lines of SQL
EarlierItems ==
    {[type |-> "heading1", text |-> "Overview"],
     [type |-> "heading1", text |-> "1. Setup"],
     [type |-> "heading2", text |-> "1.1 Scope"],
     [type |-> "paragraph", text |-> "Alpha - beta"],
     [type |-> "paragraph", text |-> "Alpha"],
     [type |-> "bullet", text |-> "dash item"],
     [type |-> "code_block",
      lines |-> <<"SELECT Id FROM Account", "WHERE Name = 'Acme'">>]}
\* the longest content given to it
MaxItems == 3
\* a line of the code buffer stays there, and so does a line of letters that
\* follows it: after a code block comes neither of them
StaysInCodeBlock(item) ==
    \/ item.type = "code_block"
    \/ item.type # "bullet" /\ item.text \in {"Overview", "Alpha"}
EarlierContents ==
    {c \in UNION {[1..m -> EarlierItems] : m \in 0..MaxItems} :
        \A k \in 2..Len(c) : c[k - 1].type = "code_block" => ~StaysInCodeBlock(c[k])}
EarlierTitles == {"Overview", "Guide"}

EarlierInit ==
    /\ content \in EarlierContents
    /\ docTitle \in EarlierTitles
    /\ organization = "TechTorch Inc."
    /\ subtitle = ""
    /\ author = ""
    /\ file = File(TRUE, <<>>, <<>>)
    /\ status = "processing"
    /\ statusMessage = "Generating document..."
    /\ downloadReady = FALSE
    /\ stats = None
    /\ conversions = <<>>
    /\ thrown = ""
    /\ docBlob = None
    /\ docSource = None
    /\ input = None
    /\ parked = None
    /\ saved = None
    /\ lines = <<>>
    /\ nonEmptyLines = <<>>
    /\ i = 0
    /\ numberedListCounter = 0
    /\ lastListIntroIndex = -10
    /\ pc = "extracted"
    /\ result = <<>>
    /\ run = 1
    /\ previous = <<>>
    /\ signals = SignalTable

\* the message of the earlier formatter for a formatted content
earlierFormatted(c) ==
    "Formatted: "
    \o Decimal(Cardinality({k \in 1..Len(c) : startsWith(c[k].type, "heading")}))
    \o " headings, " \o Decimal(CountOf(c, {"bullet"}))
    \o " bullet points, " \o Decimal(CountOf(c, {"code_block"})) \o " code blocks"

\* handleFormat of the earlier formatter, from createFormattedDocument on
EarlierFormat ==
    /\ pc = "extracted"
    /\ \E outcome \in {"ok", "Packer.toBlob"} :
          IF outcome = "ok"
          THEN /\ \E currentDate \in Dates :
                     docBlob' = Some(Blob(earlierFormattedDocument(
                                            content, docTitle, organization, currentDate)))
               /\ downloadReady' = TRUE
               /\ status' = "success"
               /\ statusMessage' = earlierFormatted(content)
               /\ thrown' = thrown
               /\ pc' = "formatted"
          ELSE /\ UNCHANGED <<downloadReady, docBlob>>
               /\ \E err \in Errors : Catch(err, outcome)
    /\ UNCHANGED <<file, stats, conversions, formVars, docSource, input, parked, saved,
                   extractVars>>

EarlierNext == EarlierFormat
EarlierSpec == EarlierInit /\ [][EarlierNext]_vars

\* ------------------------------------------------------------------------
\* Vocabulary of the properties
\* ------------------------------------------------------------------------
\* the texts of the trimmed non-empty lines, in order
LineTextSeq == [k \in 1..n |-> nonEmptyLines[k].text]
\* the number of lines an item stands for
Width(item) == IF item.type = "code_block" THEN Len(item.lines) ELSE 1
\* the number of lines the items before item k of c stand for
RECURSIVE Before(_, _)
Before(c, k) == IF k <= 1 THEN 0 ELSE Before(c, k - 1) + Width(c[k - 1])
Covered(c) == Before(c, Len(c) + 1)
\* a code_block replaced by its lines, any other item by its text
RECURSIVE Flatten(_)
Flatten(c) ==
    IF c = <<>> THEN <<>>
    ELSE (IF Head(c).type = "code_block" THEN Head(c).lines ELSE <<Head(c).text>>)
         \o Flatten(Tail(c))
Last(c) == c[Len(c)]
IsHeading(item) == item.type \in {"heading1", "heading2", "heading3"}
Types(c) == {c[k].type : k \in 1..Len(c)}

\* line = marker \o whitespace \o t, for a bullet glyph as marker
BulletGlyphs == {U2022, U2023, U25E6, U2043, U2219, "-", "*"}
IsLineWithoutGlyph(t, line) ==
    \E p \in 1..(Len(line) - 1) :
        /\ SubSeq(line, p + 1, Len(line)) = t
        /\ Ch(line, 1) \in BulletGlyphs
        /\ \A k \in 2..p : Ch(line, k) \in SpaceC
\* line = digits \o "." or ")" \o whitespace \o t
IsLineWithoutNumber(t, line) ==
    \E p \in 3..(Len(line) - 1) : \E d \in 1..(p - 2) :
        /\ SubSeq(line, p + 1, Len(line)) = t
        /\ \A k \in 1..d : Ch(line, k) \in DigitC
        /\ Ch(line, d + 1) \in {".", ")"}
        /\ \A k \in (d + 2)..p : Ch(line, k) \in SpaceC
\* the text of an item of one line is the line, or the line without its
\* list marker
Renders(item, line) ==
    \/ item.text = line
    \/ item.type \in {"bullet", "sub_bullet"} /\ IsLineWithoutGlyph(item.text, line)
    \/ item.type = "numbered" /\ IsLineWithoutNumber(item.text, line)
\* item k of c stands for the lines that follow those of the items before it
Accounts(c, k) ==
    LET at == Before(c, k) IN
    IF c[k].type = "code_block"
    THEN /\ Len(c[k].lines) >= 1
         /\ at + Len(c[k].lines) <= n
         /\ c[k].lines = SubSeq(LineTextSeq, at + 1, at + Len(c[k].lines))
    ELSE at + 1 <= n /\ Renders(c[k], LineTextSeq[at + 1])

\* ------------------------------------------------------------------------
\* C1  Coverage
\* ------------------------------------------------------------------------
\* C1 as stated: the flattened final output of extractContent equals the
\* sequence of the input lines exactly.
C1_FlattenIsInput ==
    pc = "done" => Flatten(result) = LineTextSeq

\* C1 as amended: the final output has one flattened entry per input line,
\* in order; each entry is the line itself, except that the text of a bullet
\* or sub_bullet item is the line with or without its leading glyph and the
\* whitespace after it, and the text of a numbered item is the line without
\* its leading number, "." or ")" and the whitespace after it.
C1_Coverage ==
    pc = "done" =>
        /\ Len(Flatten(result)) = n
        /\ \A k \in 1..Len(result) : Accounts(result, k)

\* a run ended with a block of several lines and a marker taken off a line
C1_Witness ==
    /\ pc = "done"
    /\ Flatten(result) # LineTextSeq
    /\ \E k \in 1..Len(result) :
          result[k].type = "code_block" /\ Len(result[k].lines) >= 2

\* ------------------------------------------------------------------------
\* C2  Consumption invariant of the scan
\* ------------------------------------------------------------------------
\* C2: at every iteration of the loop the emitted items stand for exactly the
\* lines 0..i-1, a code_block for a contiguous range and any other item for
\* one line, in increasing order; when the loop has ended the cursor is the
\* number of lines.
C2_Consumption ==
    pc \in {"scan", "done"} =>
        /\ Covered(content) = i
        /\ i <= n
        /\ \A k \in 1..Len(content) : Accounts(content, k)
        /\ (pc = "done" => i = n)

\* the loop is between two lines, a block of several lines behind it
C2_Witness ==
    /\ pc = "scan" /\ 0 < i /\ i < n
    /\ \E k \in 1..Len(content) :
          content[k].type = "code_block" /\ Len(content[k].lines) >= 2

\* ------------------------------------------------------------------------
\* C3  Numbering monotonicity
\* ------------------------------------------------------------------------
\* C3 as stated: in the final output, the first item of a maximal run of
\* consecutive numbered items has number 1 and every later item of the run
\* has the number of the item before it plus one.
C3_RunsCountFromOne ==
    pc = "done" =>
        \A k \in 1..Len(result) :
            result[k].type = "numbered" =>
                IF k > 1 /\ result[k - 1].type = "numbered"
                THEN result[k].number = result[k - 1].number + 1
                ELSE result[k].number = 1

\* the nearest numbered item before item k of c, 0 if there is none
NumberedBefore(c, k) ==
    LET J == {j \in 1..(k - 1) : c[j].type = "numbered"}
    IN  IF J = {} THEN 0 ELSE CHOOSE j \in J : \A m \in J : m <= j

\* C3 as amended: in the final output every numbered item has number 1, or
\* has the number of the nearest numbered item before it plus one, and then
\* nothing but bullet and sub_bullet items lies between the two.
C3_Numbering ==
    pc = "done" =>
        \A k \in 1..Len(result) :
            result[k].type = "numbered" =>
                \/ result[k].number = 1
                \/ LET j == NumberedBefore(result, k) IN
                   /\ j > 0
                   /\ result[k].number = result[j].number + 1
                   /\ \A m \in (j + 1)..(k - 1) :
                         result[m].type \in {"bullet", "sub_bullet"}

\* a run of two numbered items, 1 and 2
C3_Witness ==
    /\ pc = "done"
    /\ \E k \in 1..(Len(result) - 1) :
          /\ result[k].type = "numbered" /\ result[k].number = 1
          /\ result[k + 1].type = "numbered" /\ result[k + 1].number = 2

\* ------------------------------------------------------------------------
\* C4  Numbered-run reset
\* ------------------------------------------------------------------------
\* an iteration of the loop has emitted an item
Emitted == pc = "scan" /\ pc' = "scan" /\ Len(content') = Len(content) + 1

\* C4 as stated: whenever the scan emits an item that is not numbered, the
\* numbered-run counter is 0 afterwards.
C4_AnyItemResets ==
    [][Emitted /\ Last(content').type # "numbered" => numberedListCounter' = 0]_vars

\* C4 as amended: whenever the scan emits a code_block, a heading or a
\* paragraph, the numbered-run counter is 0 afterwards, and whenever it emits
\* a bullet or a sub_bullet the counter keeps its value; so a numbered item
\* emitted right after a code_block, a heading or a paragraph has number 1.
C4_Reset ==
    /\ [][Emitted =>
            /\ Last(content').type \in {"code_block", "paragraph"} \/ IsHeading(Last(content'))
               => numberedListCounter' = 0
            /\ Last(content').type \in {"bullet", "sub_bullet"}
               => numberedListCounter' = numberedListCounter]_vars
    /\ [](pc = "scan" =>
            \A k \in 2..Len(content) :
                /\ content[k].type = "numbered"
                /\ content[k - 1].type \in {"code_block", "paragraph"}
                   \/ IsHeading(content[k - 1])
                => content[k].number = 1)

\* a paragraph has ended a numbered run, and a numbered item follows it
C4_Witness ==
    /\ pc = "scan"
    /\ Len(content) >= 3
    /\ content[Len(content) - 2].type = "numbered"
    /\ content[Len(content) - 1].type = "paragraph"
    /\ content[Len(content)].type = "numbered"

\* ------------------------------------------------------------------------
\* C5  Broken numbering is never a numbered item
\* ------------------------------------------------------------------------
\* the line at the cursor starts with an integer that is neither 1 nor the
\* counter plus one
BreaksNumbering ==
    /\ LeadingDigits(text) > 0
    /\ parseInt(SubSeq(text, 1, LeadingDigits(text))) # 1
    /\ parseInt(SubSeq(text, 1, LeadingDigits(text))) # numberedListCounter + 1

\* C5: a line at the cursor whose leading integer is neither 1 nor the
\* counter plus one is never emitted as a numbered item, and the output for
\* the lines "5.", "6.", "7." holds no numbered item.
C5_BrokenNumbering ==
    /\ [][InLoop /\ BreaksNumbering /\ Emitted
            => Last(content').type # "numbered"]_vars
    /\ [](pc = "done" /\ lines = Example4 => "numbered" \notin Types(result))

\* the lines "5.", "6.", "7." have been classified
C5_Witness ==
    pc = "done" /\ lines = Example4 /\ Len(result) = 3

\* ------------------------------------------------------------------------
\* C6  Sub-bullet adjacency
\* ------------------------------------------------------------------------
\* C6: in the final output every sub_bullet item comes right after a bullet
\* item.
C6_SubBulletAdjacency ==
    pc = "done" =>
        \A k \in 1..Len(result) :
            result[k].type = "sub_bullet" => k > 1 /\ result[k - 1].type = "bullet"

\* the final output holds a sub_bullet
C6_Witness ==
    pc = "done" /\ "sub_bullet" \in Types(result)

\* ------------------------------------------------------------------------
\* C7  Code-block minimality
\* ------------------------------------------------------------------------
\* C7: every emitted code_block has a line; one with a single line opens at
\* a line that scores 80 or more; a line that scores 60..79 and would make a
\* block of one line makes no code_block and is emitted by a later rule.
C7_CodeBlockMinimality ==
    /\ [](pc \in {"scan", "done"} =>
            \A k \in 1..Len(content) :
                content[k].type = "code_block" =>
                    /\ Len(content[k].lines) >= 1
                    /\ Len(content[k].lines) = 1
                       => codeProbAt(Before(content, k)) >= 80)
    /\ [][/\ InLoop /\ Emitted
          /\ codeProb >= 60 /\ codeProb < 80 /\ codeEnd(i, i + 1) = i + 1
          => Last(content').type # "code_block" /\ i' = i + 1]_vars

\* a single line that scores 60..79 was emitted by a later rule
C7_Witness ==
    /\ pc = "done" /\ n = 1
    /\ codeProbAt(0) >= 60 /\ codeProbAt(0) < 80
    /\ content[1].type # "code_block"

\* ------------------------------------------------------------------------
\* C8  Totality and termination
\* ------------------------------------------------------------------------
\* the rules that take the line at the cursor
Taking ==
    {r \in {"code", "override", "header", "numbered", "bullet", "sub_bullet",
            "inferred", "paragraph"} :
        CASE r = "code" -> TakesCode
          [] r = "override" -> TakesOverride
          [] r = "header" -> TakesHeader
          [] r = "numbered" -> TakesNumbered
          [] r = "bullet" -> TakesBullet
          [] r = "sub_bullet" -> TakesSubBullet
          [] r = "inferred" -> TakesInferred
          [] r = "paragraph" -> TakesParagraph}

\* C8: the scan ends; every iteration of its loop emits exactly one item and
\* moves the cursor forward by a line or more, and in every iteration one
\* rule takes the line.
C8_Totality ==
    /\ [][InLoop => Len(content') = Len(content) + 1 /\ i' > i /\ i' <= n]_vars
    /\ [](InLoop => Cardinality(Taking) = 1)
    /\ (pc = "scan" ~> pc = "done")

\* a scan of three lines or more has ended, the default rule among its rules
C8_Witness ==
    pc = "done" /\ Len(content) >= 3 /\ "paragraph" \in Types(content)

\* ------------------------------------------------------------------------
\* C9  Determinism
\* ------------------------------------------------------------------------
\* C9: a second classification of the same lines returns the items the
\* first one returned; the cursor, the list-intro index and the counter of
\* the first run do not reach the second.
C9_Determinism ==
    pc = "done" /\ run > 1 => result = previous

\* the second run has ended, and the first left a counter that is not 0
C9_Witness ==
    /\ pc = "done" /\ run = 2
    /\ numberedListCounter > 0
    /\ Len(result) >= 2

\* ------------------------------------------------------------------------
\* C10  Example 1
\* ------------------------------------------------------------------------
\* type and text (lines, number) of the items
View(c) ==
    [k \in 1..Len(c) |->
        IF c[k].type = "code_block" THEN <<c[k].type, c[k].lines>>
        ELSE IF c[k].type = "numbered" THEN <<c[k].type, c[k].text, c[k].number>>
        ELSE <<c[k].type, c[k].text>>]

\* C10 as stated: the output for Example 1 is heading1 "Setup", paragraph
\* "Install the tool", heading1 "Configure", paragraph "Edit the config file".
C10_Example1Stripped ==
    pc = "done" /\ lines = Example1 =>
        View(result) = << <<"heading1", "Setup">>,
                          <<"paragraph", "Install the tool">>,
                          <<"heading1", "Configure">>,
                          <<"paragraph", "Edit the config file">> >>

\* C10 as amended: the output for Example 1 is heading1 "1. Setup",
\* paragraph "Install the tool", heading1 "2. Configure", paragraph "Edit the
\* config file": the headings keep their numbers, the heading override wins
\* over the numbered-list rule and no numbered item is emitted.
C10_Example1 ==
    pc = "done" /\ lines = Example1 =>
        View(result) = << <<"heading1", "1. Setup">>,
                          <<"paragraph", "Install the tool">>,
                          <<"heading1", "2. Configure">>,
                          <<"paragraph", "Edit the config file">> >>

\* Example 1 has been classified
C10_Witness ==
    pc = "done" /\ lines = Example1 /\ Len(result) = 4

\* ------------------------------------------------------------------------
\* C11  Example 3
\* ------------------------------------------------------------------------
\* C11 as stated: for Example 3 the line at cursor 0 has a code probability of
\* 60 or more, and the output is one code_block that holds the three lines in
\* order, and no other item.
C11_Example3 ==
    lines = Example3 =>
        /\ (pc = "scan" /\ i = 0 => codeProb >= 60)
        /\ (pc = "done" => View(result) = << <<"code_block", Example3>> >>)

\* ------------------------------------------------------------------------
\* C12  Example 2
\* ------------------------------------------------------------------------
\* C12: for Example 2 the first line introduces a list, becomes the tracked
\* list introduction and is emitted as a paragraph; each of the next three
\* lines is within the window after it, has a bullet probability of 60 or
\* more and is emitted as a bullet by the inferred-bullet rule.
C12_Example2 ==
    lines = Example2 =>
        /\ (pc = "scan" /\ i = 0 => isListIntro /\ TakesParagraph)
        /\ (pc = "scan" /\ i \in 1..3 =>
               /\ lastListIntroIndex = 0
               /\ isAfterListIntro
               /\ bulletProb >= 60
               /\ TakesInferred)
        /\ (pc \in {"scan", "done"} =>
               View(content) = SubSeq(<< <<"paragraph", Example2[1]>>,
                                         <<"bullet", Example2[2]>>,
                                         <<"bullet", Example2[3]>>,
                                         <<"bullet", Example2[4]>> >>, 1, i))
        /\ (pc = "done" => View(result) = View(content) /\ i = 4)

\* Example 2 has been classified
C12_Witness ==
    pc = "done" /\ lines = Example2 /\ Len(result) = 4 /\ result[4].type = "bullet"

\* ------------------------------------------------------------------------
\* C13  Extraction fallback
\* ------------------------------------------------------------------------
\* handleFormat caught what extractContent threw
ExtractionFailed == thrown \in {"arrayBuffer", "extractRawText"}
\* extractContent is past its conversions
Converted == pc \in {"start", "scan", "done"} \/ (pc = "end" /\ thrown # "arrayBuffer")
\* the HTML conversion is called first, the raw-text conversion after it and
\* if and only if it failed; the lines classified are those of the
\* conversion that succeeded
FallbackOrder ==
    /\ (Len(conversions) >= 1 => conversions[1] = "convertToHtml")
    /\ (Len(conversions) >= 2 =>
           conversions = <<"convertToHtml", "extractRawText">> /\ file.html = None)
    /\ (Converted => (Len(conversions) = 2 <=> file.html = None))
    /\ (pc \in {"start", "scan", "done"} =>
           Some(lines) = IF file.html # None THEN file.html ELSE file.raw)

\* C13 as stated: the HTML conversion is tried first; the raw-text conversion
\* is used if and only if it fails, and its lines are then classified; the
\* caller gets an error of extractContent only when both conversions fail.
C13_OnlyConversionsFail ==
    /\ FallbackOrder
    /\ (ExtractionFailed => file.html = None /\ file.raw = None /\ Len(conversions) = 2)

\* C13 as amended: as stated, except that the caller gets an error of
\* extractContent when the bytes of the file cannot be read, before any
\* conversion is tried, or when both conversions fail, and then always.
C13_Fallback ==
    /\ FallbackOrder
    /\ (thrown = "arrayBuffer" => ~file.readable /\ conversions = <<>>)
    /\ (thrown = "extractRawText" =>
           file.readable /\ file.html = None /\ file.raw = None /\ Len(conversions) = 2)
    /\ (ExtractionFailed => pc = "end" /\ status = "error" /\ result = <<>>)
    /\ (Converted /\ file.html = None /\ file.raw = None => thrown = "extractRawText")

\* the lines of the raw-text conversion have been classified after the HTML
\* conversion failed
C13_Witness ==
    /\ pc = "done" /\ file.html = None
    /\ conversions = <<"convertToHtml", "extractRawText">>
    /\ Len(result) >= 2

\* ------------------------------------------------------------------------
\* C14  A failure of the document building is terminal
\* ------------------------------------------------------------------------
\* handleFormat caught what the building or the packing of the document threw
BuildFailed == thrown \in {"createFormattedDocument", "Packer.toBlob"}

\* C14: when createFormattedDocument or Packer.toBlob throws, handleFormat
\* ends with status 'error' and a message that starts with "Error: "; the
\* status is not 'success', and from then on the run takes no step: nothing
\* is converted, classified or built again.
C14_BuildFailureIsTerminal ==
    /\ [](BuildFailed =>
            /\ pc = "end"
            /\ status = "error" /\ status # "success"
            /\ startsWith(statusMessage, "Error: ")
            /\ ~downloadReady)
    /\ [][BuildFailed => UNCHANGED vars]_vars
    /\ [][BuildFailed' /\ ~BuildFailed => pc = "done" /\ status = "processing"]_vars

\* the building of a classified document has failed
C14_Witness ==
    BuildFailed /\ pc = "end" /\ Len(result) >= 2 /\ stats # None

\* ------------------------------------------------------------------------
\* C15  Derived statistics
\* ------------------------------------------------------------------------
\* the kinds of items the statistics tell apart, with the types of each
Kinds ==
    [headings   |-> {"heading1", "heading2", "heading3"},
     bullets    |-> {"bullet", "sub_bullet"},
     numbered   |-> {"numbered"},
     codeBlocks |-> {"code_block"},
     paragraphs |-> {"paragraph"}]
\* the number of items of c among the first k whose type is in T
RECURSIVE Tally(_, _, _)
Tally(c, k, T) ==
    IF k = 0 THEN 0 ELSE Tally(c, k - 1, T) + (IF c[k].type \in T THEN 1 ELSE 0)

\* C15: each of the five counts computed from the items extractContent
\* returned is the number of items of its kind; every item is of exactly one
\* of the five kinds, and the five counts add up to the number of items.
C15_Statistics ==
    stats # None =>
        /\ DOMAIN stats[1] = DOMAIN Kinds
        /\ \A f \in DOMAIN Kinds : stats[1][f] = Tally(result, Len(result), Kinds[f])
        /\ \A k \in 1..Len(result) :
              Cardinality({f \in DOMAIN Kinds : result[k].type \in Kinds[f]}) = 1
        /\ stats[1].headings + stats[1].bullets + stats[1].numbered
              + stats[1].codeBlocks + stats[1].paragraphs = Len(result)

\* the counts of a document with a sub-bullet and items of two other kinds
C15_Witness ==
    /\ stats # None
    /\ "sub_bullet" \in Types(result)
    /\ Cardinality(Types(result)) >= 3

\* ------------------------------------------------------------------------
\* C16  Code detection preempts the other rules
\* ------------------------------------------------------------------------
\* C16: in every iteration whose line has a code probability of 60 or more
\* and whose greedy block, ending before line j, has two lines or more or
\* opens with a score of 80 or more, the step appends exactly one item, a
\* code_block with the lines i..j-1 in order, sets the counter to 0 and the
\* cursor to j; so no line of the block is the line of a later iteration,
\* and none is looked at by the heading, numbered or bullet rules.
C16_CodePreempts ==
    [][InLoop /\ codeProb >= 60 /\ (codeEnd(i, i + 1) - i >= 2 \/ codeProb >= 80) =>
         LET j == codeEnd(i, i + 1) IN
         /\ j > i /\ j <= n
         /\ Len(content') = Len(content) + 1
         /\ SubSeq(content', 1, Len(content)) = content
         /\ Last(content').type = "code_block"
         /\ Last(content').lines = SubSeq(LineTextSeq, i + 1, j)
         /\ numberedListCounter' = 0
         /\ i' = j]_vars

\* a block of two lines or more has been emitted right after a numbered
\* item
C16_Witness ==
    /\ pc = "scan" /\ Len(content) >= 2
    /\ Last(content).type = "code_block" /\ Len(Last(content).lines) >= 2
    /\ content[Len(content) - 1].type = "numbered"
    /\ numberedListCounter = 0

\* ------------------------------------------------------------------------
\* C17  The heading-level override
\* ------------------------------------------------------------------------
\* the level of the numeric prefix of a text that is followed by white space
\* and a capital letter: 'N.N.N <Capital>' is heading3, 'N.N <Capital>' is
\* heading2, 'N. <Capital>' is heading1
CapitalPrefixLevel ==
    [t \in Texts |->
        IF test(SectionH3, t) THEN Some("heading3")
        ELSE IF test(SectionH2, t) THEN Some("heading2")
        ELSE IF test(SectionH1, t) THEN Some("heading1")
        ELSE None]

\* C17 as stated: a line that the code rule does not take is emitted by the
\* override rule as heading3, heading2 or heading1 if and only if it matches
\* 'N.N.N <Capital>', 'N.N <Capital>' or 'N. <Capital>' respectively, and a
\* line that matches none of the three is not emitted by the override rule.
C17_OverrideOnCapitalPrefix ==
    InLoop /\ ~TakesCode =>
        (IF TakesOverride THEN headingLevel ELSE None) = CapitalPrefixLevel[text]

\* ------------------------------------------------------------------------
\* C18  The list-intro window
\* ------------------------------------------------------------------------
SetMax(S) == CHOOSE m \in S : \A x \in S : x <= m
\* the list-introduction lines before line k
IntrosBefore(k) == {q \in 0..(k - 1) : isListIntroAt(q)}
\* the lines before the cursor that were at the cursor of an iteration
Cursors == {Before(content, k) : k \in 1..Len(content)}
\* the list-introduction lines among them
IntrosSeen == {q \in Cursors : isListIntroAt(q)}

\* C18 as stated: at every cursor position the line is treated as after a
\* list intro if and only if the most recent list-introduction line before
\* the cursor is at most 5 lines back, and the tracked index is the position
\* of the most recent list-introduction line of the lines scanned so far.
C18_WindowOverAllLines ==
    InLoop =>
        /\ isAfterListIntro <=>
              (IntrosBefore(i) # {} /\ i - SetMax(IntrosBefore(i)) <= 5)
        /\ IntrosBefore(i) # {} => lastListIntroIndex = SetMax(IntrosBefore(i))
        /\ IntrosBefore(i + 1) # {} => listIntroIndex = SetMax(IntrosBefore(i + 1))

\* C18 as amended: the tracked index is the position of the most recent
\* list-introduction line among the lines that were at the cursor of an
\* iteration (a line consumed inside a code block after its first line is
\* not one), and -10 if there is none; the line at the cursor is treated as
\* after a list intro if and only if it is not a list introduction itself
\* and the tracked index is at most 5 lines back.
C18_Window ==
    pc = "scan" =>
        /\ lastListIntroIndex = IF IntrosSeen = {} THEN -10 ELSE SetMax(IntrosSeen)
        /\ InLoop =>
              (isAfterListIntro <=>
                  /\ ~isListIntro
                  /\ IntrosSeen # {}
                  /\ i - SetMax(IntrosSeen) <= 5)

\* the cursor is 6 lines after the list introduction, past the window
C18_Witness ==
    /\ InLoop /\ i = 6 /\ IntrosSeen = {0}
    /\ ~isAfterListIntro
    /\ Len(content) = 6

\* ------------------------------------------------------------------------
\* C19  The reclassification rule of postProcessContent
\* ------------------------------------------------------------------------
\* rule (a) for item k: the item before it has text matching a list introduction
AfterIntroItem(k) ==
    k > 1 /\ HasText(content[k - 1]) /\ Sig(content[k - 1].text).listIntro
\* rule (b) for item k: the output item before it is a bullet and the input
\* item after it is a bullet
BetweenBullets(k) ==
    /\ k > 1 /\ result[k - 1].type = "bullet"
    /\ k < Len(content) /\ content[k + 1].type = "bullet"
Reclassified(k) == content[k].type = "paragraph" /\ result[k].type = "bullet"

\* C19 as stated: postProcessContent turns a paragraph into a bullet if and
\* only if rule (a) or rule (b) holds for it, so every paragraph that
\* satisfies (a) or (b) is reclassified.
C19_EveryParagraph ==
    pc = "done" =>
        \A k \in 1..Len(content) :
            content[k].type = "paragraph" =>
                (result[k].type = "bullet" <=> AfterIntroItem(k) \/ BetweenBullets(k))

\* C19 as amended: postProcessContent turns a paragraph into a bullet if and
\* only if its text is not empty and shorter than 100 characters and rule
\* (a) or rule (b) holds for it.
C19_ShortParagraph ==
    pc = "done" =>
        \A k \in 1..Len(content) :
            content[k].type = "paragraph" =>
                (result[k].type = "bullet" <=>
                    /\ content[k].text # "" /\ Len(content[k].text) < 100
                    /\ (AfterIntroItem(k) \/ BetweenBullets(k)))

\* a paragraph between two bullets, not after a list introduction, was
\* reclassified by rule (b)
C19_Witness ==
    /\ pc = "done" /\ Len(content) = 3
    /\ Reclassified(2) /\ BetweenBullets(2) /\ ~AfterIntroItem(2)

\* ------------------------------------------------------------------------
\* C20  What postProcessContent leaves alone
\* ------------------------------------------------------------------------
\* C20: postProcessContent returns a sequence of the same length and order
\* as its input; an item that is not a paragraph is returned unchanged, and
\* of a paragraph only the type may change, to bullet, while its other
\* fields are unchanged.
C20_Frame ==
    pc = "done" =>
        /\ Len(result) = Len(content)
        /\ \A k \in 1..Len(content) :
              IF content[k].type = "paragraph"
              THEN result[k] \in {content[k], [content[k] EXCEPT !.type = "bullet"]}
              ELSE result[k] = content[k]

\* a paragraph was reclassified next to an item that is neither a paragraph
\* nor a bullet
C20_Witness ==
    /\ pc = "done"
    /\ \E k \in 1..Len(content) : Reclassified(k)
    /\ \E k \in 1..Len(content) : content[k].type \notin {"paragraph", "bullet"}

\* ------------------------------------------------------------------------
\* C21  The range of the scores
\* ------------------------------------------------------------------------
\* C21: for the line at the cursor and its context, analyzeHeaderProbability,
\* analyzeCodeProbability and analyzeBulletProbability each return an
\* integer from 0 to 100.
C21_ScoreRange ==
    InLoop => headerProb \in 0..100 /\ codeProb \in 0..100 /\ bulletProb \in 0..100

\* ------------------------------------------------------------------------
\* C22  Blank lines before a line
\* ------------------------------------------------------------------------
\* the line before the cursor line in the lines as converted, if any
originalPrev ==
    IF nonEmptyLines[i + 1].originalIndex > 0
    THEN Some(lines[nonEmptyLines[i + 1].originalIndex])
    ELSE None

\* C22: when the line before the cursor line in the lines as converted is
\* blank, the header score of the cursor line is the score with the bonus
\* for a blank or absent preceding line.
C22_BlankContext ==
    InLoop /\ originalPrev # None /\ trim(originalPrev[1]) = "" =>
        headerProb = analyzeHeaderProbability(text, originalPrev, next)

\* ------------------------------------------------------------------------
\* C23  The level of a heading found by its score
\* ------------------------------------------------------------------------
SubTopicNouns ==
    {"Example", "Screen", "Step", "Phase", "Part", "Section", "Case", "Scenario"}
BeginsWithSubTopic == \E w \in SubTopicNouns : startsWith(text, w)
\* the header score the previous line had when it was the line looked at
scoreOfPrevious == analyzeHeaderProbability(textAt(i - 1), prevAt(i - 1), nextAt(i - 1))
\* the header score of the previous line taken as a line with nothing before
\* it and the cursor line after it
scoreOfPreviousAlone == analyzeHeaderProbability(textAt(i - 1), None, Some(text))
LevelFor(afterHeader) ==
    IF Len(text) < 30 /\ afterHeader THEN "heading3"
    ELSE IF BeginsWithSubTopic THEN "heading2"
    ELSE "heading1"
\* the step appends one heading of the given level with the text of the
\* cursor line, resets the counter and advances one line
EmitsHeading(level) ==
    /\ Len(content') = Len(content) + 1
    /\ SubSeq(content', 1, Len(content)) = content
    /\ Last(content').type = level
    /\ Last(content').text = text
    /\ numberedListCounter' = 0
    /\ i' = i + 1

\* C23 as stated: a line taken by the header-probability rule gets level 3 if
\* it is shorter than 30 characters and the previous line scores at least 50
\* as a header, otherwise level 2 if it begins with a sub-topic noun,
\* otherwise level 1; the rule resets the counter and advances one line.
C23_LevelByPreviousScore ==
    [][InLoop /\ TakesHeader =>
         EmitsHeading(LevelFor(i > 0 /\ scoreOfPrevious >= 50))]_vars

\* C23 as amended: the score of the previous line that decides level 3 is
\* the one of analyzeHeaderProbability for the previous line with no line
\* before it and the cursor line after it.
C23_LevelSelection ==
    [][InLoop /\ TakesHeader =>
         EmitsHeading(LevelFor(i > 0 /\ scoreOfPreviousAlone >= 50))]_vars

\* a short heading that begins with a sub-topic noun was emitted at level 3
\* after a heading, and one after a low-scoring line at level 2
C23_Witness ==
    /\ pc = "scan" /\ lines = ProbeSubTopics /\ i = 4
    /\ content[2].type = "heading3" /\ content[4].type = "heading2"
    /\ numberedListCounter = 0

\* ------------------------------------------------------------------------
\* C27  postProcessContent applied to its own result
\* ------------------------------------------------------------------------
\* what a second pass makes of the result
secondPass == postProcessContent(result)

\* C27 as stated: postProcessContent(postProcessContent(s)) equals
\* postProcessContent(s) for the item sequence s the pass was given.
C27_Idempotent ==
    pc = "done" => secondPass = result

\* C27 as amended: a second pass keeps the length and order, and changes
\* exactly the paragraphs of the result shorter than 100 characters whose
\* preceding item is a bullet in the output of the second pass and whose
\* following item is a bullet of the result; it turns them into bullets.
C27_SecondPass ==
    pc = "done" =>
        /\ Len(secondPass) = Len(result)
        /\ \A k \in 1..Len(result) :
              IF /\ result[k].type = "paragraph" /\ Len(result[k].text) < 100
                 /\ k > 1 /\ secondPass[k - 1].type = "bullet"
                 /\ k < Len(result) /\ result[k + 1].type = "bullet"
              THEN secondPass[k] = [result[k] EXCEPT !.type = "bullet"]
              ELSE secondPass[k] = result[k]

\* the second pass changes a paragraph whose following item the first pass
\* made a bullet
C27_Witness ==
    /\ pc = "done" /\ Len(result) = 3
    /\ content[3].type = "paragraph" /\ result[3].type = "bullet"
    /\ result[2].type = "paragraph" /\ secondPass[2].type = "bullet"

\* ------------------------------------------------------------------------
\* C24  The order of the rendering and the rows of a code block
\* ------------------------------------------------------------------------
\* the position of the last page break of the children d
FrontLen(d) == SetMax({k \in 1..Len(d) : d[k].el = "pageBreak"})
\* d opens with the title page, which shows the title, and the table of
\* contents, and nothing else comes before position p
IsFrontMatter(d, p) ==
    /\ p > 4 /\ d[p].el = "pageBreak" /\ d[p - 1].el = "toc"
    /\ d[p - 2].el = "paragraph" /\ d[p - 2].style = "tocTitle"
    /\ d[p - 3].el = "pageBreak"
    /\ \A k \in 1..(p - 4) :
          \/ d[k].el = "blank"
          \/ /\ d[k].el = "paragraph"
             /\ d[k].style \in {"title", "subtitle", "organization", "date", "version"}
    /\ \E k \in 1..(p - 4) :
          d[k].el = "paragraph" /\ d[k].style = "title" /\ d[k].runs = <<docTitle>>
\* the element e is the rendering of the item
RendersItem(e, item) ==
    IF item.type = "code_block"
    THEN /\ e.el = "table"
         /\ Len(e.rows) = Len(item.lines)
         /\ \A r \in 1..Len(item.lines) :
               /\ e.rows[r].text = item.lines[r]
               /\ e.rows[r].top = "single" <=> r = 1
               /\ e.rows[r].bottom = "single" <=> r = Len(item.lines)
    ELSE /\ e.el = "paragraph"
         /\ e.style = item.type
         /\ e.runs[Len(e.runs)] = item.text
         /\ item.type = "numbered" => e.runs = <<Decimal(item.number) \o ". ", item.text>>
NotBlank(e) == e.el # "blank"

\* C24: the children of the document are the title page and the table of
\* contents, then one element per content item in the order of the items
\* (apart from empty spacing paragraphs), then the 'End of Document'
\* paragraph last; the element of a code_block with n lines is one table of
\* n rows with the lines as their texts in order, the top border on the
\* first row only and the bottom border on the last row only.
C24_RenderingOrder ==
    [][pc = "done" /\ status' = "success" =>
         LET d == docBlob'[1].document
             p == FrontLen(d)
             rendered == SelectSeq(SubSeq(d, p + 1, Len(d) - 1), NotBlank)
         IN  /\ IsFrontMatter(d, p)
             /\ Last(d).el = "paragraph" /\ Last(d).style = "end"
             /\ Last(d).runs = <<"End of Document">>
             /\ Len(rendered) = Len(result)
             /\ \A k \in 1..Len(result) : RendersItem(rendered[k], result[k])]_vars

\* the document of the probe with every type of item has been packed; it
\* holds a table of two rows
C24_Witness ==
    /\ pc = "end" /\ status = "success" /\ lines = ProbeAllKinds
    /\ Len(result) = 10 /\ docBlob # None
    /\ \E k \in 1..Len(docBlob[1].document) :
          /\ docBlob[1].document[k].el = "table"
          /\ Len(docBlob[1].document[k].rows) = 2

\* ------------------------------------------------------------------------
\* C25  One run of handleFormat at a time
\* ------------------------------------------------------------------------
\* the runs of handleFormat that have started and not yet ended
RunsInFlight ==
    (IF pc \notin {"idle", "end"} THEN 1 ELSE 0) + (IF parked # None THEN 1 ELSE 0)

\* C25: while a run of handleFormat has set the status to 'processing' and
\* has not yet set it to 'success' or 'error', no second run starts, so
\* there is never more than one run in flight.
C25_SingleRunInFlight == RunsInFlight <= 1

\* ------------------------------------------------------------------------
\* C26  What the download button offers
\* ------------------------------------------------------------------------
\* C26: whenever downloadReady is true, the run of handleFormat that ended
\* last succeeded (so the status is not 'error'), and docBlob is the
\* document which that run made from the file that is selected now.
C26_DownloadConsistency ==
    downloadReady =>
        /\ status # "error"
        /\ docBlob # None
        /\ docSource = Some(file)

\* ------------------------------------------------------------------------
\* C28  The earlier formatter: the item promoted to the subtitle
\* ------------------------------------------------------------------------
\* the item whose text the title page shows as the subtitle, if any
IsPromotable(item) ==
    \/ item.type = "heading1" /\ item.text # docTitle
    \/ item.type = "paragraph" /\ includes(item.text, " - ")
Promotables == {k \in 1..Len(content) : IsPromotable(content[k])}
SetMin(S) == CHOOSE m \in S : \A x \in S : m <= x
\* the content without item q
Without(c, q) == [k \in 1..(Len(c) - 1) |-> IF k < q THEN c[k] ELSE c[k + 1]]
\* the items the body is to show
BodyItems == IF Promotables = {} THEN content ELSE Without(content, SetMin(Promotables))

\* C28: the body of the document of the earlier formatter shows every
\* content item once and in order, except the one item whose text is the
\* subtitle of the title page, which the body does not show.
C28_SubtitleOmittedOnce ==
    pc = "formatted" =>
        LET d == docBlob[1].document
            rendered == SelectSeq(SubSeq(d, FrontLen(d) + 1, Len(d) - 1), NotBlank)
        IN  /\ Len(rendered) = Len(BodyItems)
            /\ \A k \in 1..Len(BodyItems) : RendersItem(rendered[k], BodyItems[k])

====
